---- MODULE Spec2Model ----
(***************************************************************************)
(* Legacy Tree: the family data model and the tree mutation algebra of the *)
(* App component (calculateDegree, updateNode, deleteNode, addParentToNode,*)
(* addSpouseToNode and the handlers that apply them to the React state),   *)
(* and the LegacyTree component that draws the tree: the set of expanded   *)
(* spouses, the stored zoom transform, and the elements one pass of the    *)
(* drawing effect leaves in the SVG.                                       *)
(*                                                                         *)
(* A FamilyMember is a record; `parents` is a sequence of members and      *)
(* `spouse` is the empty sequence (no spouse) or a one-element sequence.   *)
(* An absent `parents` field and an empty `parents` array are both the     *)
(* empty sequence: every read in the source goes through `parents &&`,    *)
(* `parents.length > 0` or `parents || []`, which treat them alike.        *)
(* Strings that the code parses or builds (year, ids) are modelled by      *)
(* their structure: a year is a sequence of one-character strings, an id   *)
(* is the record of the parts its template literal concatenates.           *)
(***************************************************************************)
EXTENDS Integers, Sequences, FiniteSets, TLC

VARIABLES data, editingMember, now, calls, last,
          dimensions, expandedSpouseIds, currentZoomState, transform, drawn,
          rendered

vars == <<data, editingMember, now, calls, last,
          dimensions, expandedSpouseIds, currentZoomState, transform, drawn,
          rendered>>

-----------------------------------------------------------------------------
(* Bounds *)

\* number of events (handler calls, editor opened or closed) in one behaviour
MaxCalls == 2
\* largest tree the handlers are applied to when the input tree is drawn
MaxNodes == 4
\* number of distinct values Math.random().toString(36).substr(2, 9) can take
MaxRand == 2
\* number of members added to the seed tree in the trees that are laid out
MaxAdded == 2

-----------------------------------------------------------------------------
(* Values *)

\* the value of an optional text field that is not set
Undefined == "<undefined>"

\* the result of deleteNode when the node itself is the target
Null == [null |-> TRUE]

\* ids of the seed data are literals; synthetic ids are `new-<t>-<r>`,
\* `spouse-<t>` and `child-<t>`
SeedId(s) == [pfx |-> s, t |-> 0, r |-> 0]

NewId(t, r) == [pfx |-> "new", t |-> t, r |-> r]

SpouseId(t) == [pfx |-> "spouse", t |-> t, r |-> 0]

ChildId(t) == [pfx |-> "child", t |-> t, r |-> 0]

\* an id no member of the tree ever carries
AbsentId == SeedId("nobody")

Rand == 1..MaxRand

PlaceholderImage == "https://picsum.photos/200"

INITIAL_DATA ==
  [id |-> SeedId("root"), name |-> "Samuel Legacy",
   year |-> <<"1", "9", "5", "5">>,
   imageUrl |-> "https://picsum.photos/id/1062/200/200",
   relationship |-> Undefined,
   parents |-> <<
     [id |-> SeedId("p1"), name |-> "Eleanor Rigby",
      year |-> <<"1", "9", "2", "5">>,
      imageUrl |-> "https://picsum.photos/id/338/200/200",
      relationship |-> "Mother",
      parents |-> <<
        [id |-> SeedId("gp1"), name |-> "Father Rigby",
         year |-> <<"1", "8", "9", "9">>,
         imageUrl |-> "https://picsum.photos/id/1005/200/200",
         relationship |-> "Grandfather",
         parents |-> <<>>, spouse |-> <<>>] >>,
      spouse |-> <<>>],
     [id |-> SeedId("p2"), name |-> "Arthur Legacy",
      year |-> <<"1", "9", "2", "8">>,
      imageUrl |-> "https://picsum.photos/id/1025/200/200",
      relationship |-> "Father",
      parents |-> <<>>, spouse |-> <<>>] >>,
   spouse |-> <<>>]

-----------------------------------------------------------------------------
(* parseInt and number formatting, as used on the year field *)

DigitVal ==
  "0" :> 0 @@ "1" :> 1 @@ "2" :> 2 @@ "3" :> 3 @@ "4" :> 4 @@
  "5" :> 5 @@ "6" :> 6 @@ "7" :> 7 @@ "8" :> 8 @@ "9" :> 9

DigitChar == [d \in 0..9 |-> CHOOSE c \in DOMAIN DigitVal : DigitVal[c] = d]

NaN == [nan |-> TRUE, val |-> 0]

Num(n) == [nan |-> FALSE, val |-> n]

RECURSIVE TrimStart(_)
TrimStart(s) ==
  IF s # <<>> /\ Head(s) = " " THEN TrimStart(Tail(s)) ELSE s

RECURSIVE DigitPrefix(_)
DigitPrefix(s) ==
  IF s # <<>> /\ Head(s) \in DOMAIN DigitVal
  THEN <<Head(s)>> \o DigitPrefix(Tail(s))
  ELSE <<>>

RECURSIVE DigitsToNat(_, _)
DigitsToNat(s, acc) ==
  IF s = <<>> THEN acc
  ELSE DigitsToNat(Tail(s), acc * 10 + DigitVal[Head(s)])

\* parseInt(str): leading blanks skipped, optional sign, then the longest run
\* of decimal digits; NaN when there is none
parseInt(str) ==
  LET t == TrimStart(str)
      signed == t # <<>> /\ Head(t) \in {"-", "+"}
      u == IF signed THEN Tail(t) ELSE t
      d == DigitPrefix(u)
      v == DigitsToNat(d, 0)
  IN  IF d = <<>> THEN NaN
      ELSE IF signed /\ Head(t) = "-" THEN Num(-v) ELSE Num(v)

NumAdd(x, k) == IF x.nan THEN NaN ELSE Num(x.val + k)

RECURSIVE NatToString(_)
NatToString(n) ==
  IF n < 10 THEN <<DigitChar[n]>>
  ELSE NatToString(n \div 10) \o <<DigitChar[n % 10]>>

\* `${number}`
NumToString(x) ==
  IF x.nan THEN <<"N", "a", "N">>
  ELSE IF x.val < 0 THEN <<"-">> \o NatToString(-x.val)
  ELSE NatToString(x.val)

-----------------------------------------------------------------------------
(* Walking the structure *)

RECURSIVE Sum(_)
Sum(s) == IF s = <<>> THEN 0 ELSE Head(s) + Sum(Tail(s))

\* number of members in the structure, spouses included
RECURSIVE Size(_)
Size(tree) ==
  1 + Sum([i \in 1..Len(tree.spouse) |-> Size(tree.spouse[i])])
    + Sum([i \in 1..Len(tree.parents) |-> Size(tree.parents[i])])

\* the ids carried by the members of the structure
RECURSIVE Ids(_)
Ids(tree) ==
  {tree.id}
    \cup UNION {Ids(tree.spouse[i]) : i \in 1..Len(tree.spouse)}
    \cup UNION {Ids(tree.parents[i]) : i \in 1..Len(tree.parents)}

\* A position in the structure: the sequence of edges followed from the root,
\* 0 for the spouse edge and i >= 1 for the i-th entry of parents.
RECURSIVE Paths(_)
Paths(tree) ==
  {<<>>}
    \cup UNION {{<<0>> \o p : p \in Paths(tree.spouse[i])} :
                  i \in 1..Len(tree.spouse)}
    \cup UNION {{<<i>> \o p : p \in Paths(tree.parents[i])} :
                  i \in 1..Len(tree.parents)}

RECURSIVE NodeAt(_, _)
NodeAt(tree, path) ==
  IF path = <<>> THEN tree
  ELSE IF Head(path) = 0 THEN NodeAt(tree.spouse[1], Tail(path))
  ELSE NodeAt(tree.parents[Head(path)], Tail(path))

UniqueIds(tree) == Cardinality(Ids(tree)) = Size(tree)

-----------------------------------------------------------------------------
(* calculateDegree *)

\* traverse without the count of the spouse reference
RECURSIVE traverseNoSpouseRef(_, _)
traverseNoSpouseRef(node, targetId) ==
    (IF node.id = targetId
     THEN Len(node.parents) + (IF node.spouse # <<>> THEN 1 ELSE 0)
     ELSE 0)
  + (IF \E i \in 1..Len(node.parents) : node.parents[i].id = targetId
     THEN 1 ELSE 0)
  + Sum([i \in 1..Len(node.parents) |->
           traverseNoSpouseRef(node.parents[i], targetId)])
  + (IF node.spouse # <<>>
     THEN traverseNoSpouseRef(node.spouse[1], targetId)
     ELSE 0)

\* traverse without the count of the reference from a parents array
RECURSIVE traverseNoParentRef(_, _)
traverseNoParentRef(node, targetId) ==
    (IF node.id = targetId
     THEN Len(node.parents) + (IF node.spouse # <<>> THEN 1 ELSE 0)
     ELSE 0)
  + Sum([i \in 1..Len(node.parents) |->
           traverseNoParentRef(node.parents[i], targetId)])
  + (IF node.spouse # <<>>
     THEN (IF node.spouse[1].id = targetId THEN 1 ELSE 0)
          + traverseNoParentRef(node.spouse[1], targetId)
     ELSE 0)

RECURSIVE traverse(_, _)
traverse(node, targetId) ==
    (IF node.id = targetId
     THEN Len(node.parents) + (IF node.spouse # <<>> THEN 1 ELSE 0)
     ELSE 0)
  + (IF \E i \in 1..Len(node.parents) : node.parents[i].id = targetId
     THEN 1 ELSE 0)
  + Sum([i \in 1..Len(node.parents) |-> traverse(node.parents[i], targetId)])
  + (IF node.spouse # <<>>
     THEN (IF node.spouse[1].id = targetId THEN 1 ELSE 0)
          + traverse(node.spouse[1], targetId)
     ELSE 0)

calculateDegree(root, targetId) == traverse(root, targetId)

-----------------------------------------------------------------------------
(* updateNode *)

\* { ...member, ...updates }
Merge(member, updates) ==
  [f \in DOMAIN member |->
     IF f \in DOMAIN updates THEN updates[f] ELSE member[f]]

\* updateNode that looks at the spouse but not below it
RECURSIVE updateNodeSkipsSpouse(_, _, _)
updateNodeSkipsSpouse(tree, targetId, updates) ==
  IF tree.id = targetId THEN Merge(tree, updates)
  ELSE
    LET updatedSpouse ==
          IF tree.spouse # <<>> /\ tree.spouse[1].id = targetId
          THEN <<Merge(tree.spouse[1], updates)>>
          ELSE tree.spouse
        updatedParents ==
          [i \in 1..Len(tree.parents) |->
             updateNodeSkipsSpouse(tree.parents[i], targetId, updates)]
    IN  [tree EXCEPT !.spouse = updatedSpouse, !.parents = updatedParents]

RECURSIVE updateNode(_, _, _)
updateNode(tree, targetId, updates) ==
  IF tree.id = targetId THEN Merge(tree, updates)
  ELSE
    LET updatedSpouse ==
          IF tree.spouse # <<>>
          THEN IF tree.spouse[1].id = targetId
               THEN <<Merge(tree.spouse[1], updates)>>
               ELSE <<updateNode(tree.spouse[1], targetId, updates)>>
          ELSE tree.spouse
        updatedParents ==
          IF Len(tree.parents) > 0
          THEN [i \in 1..Len(tree.parents) |->
                  updateNode(tree.parents[i], targetId, updates)]
          ELSE tree.parents
    IN  [tree EXCEPT !.spouse = updatedSpouse, !.parents = updatedParents]

-----------------------------------------------------------------------------
(* deleteNode *)

\* deleteNode whose parents loop does not flag a removed entry as a change
RECURSIVE deleteNodeKeepsParent(_, _)
deleteNodeKeepsParent(tree, targetId) ==
  IF tree.id = targetId THEN Null
  ELSE
    LET updatedSpouse ==
          IF tree.spouse # <<>>
          THEN LET res == deleteNodeKeepsParent(tree.spouse[1], targetId)
               IN  IF res = Null THEN <<>> ELSE <<res>>
          ELSE tree.spouse
        results ==
          [i \in 1..Len(tree.parents) |->
             deleteNodeKeepsParent(tree.parents[i], targetId)]
        newParents == SelectSeq(results, LAMBDA res : res # Null)
        changed ==
          \E i \in 1..Len(tree.parents) :
            results[i] # Null /\ results[i] # tree.parents[i]
        updatedParents == IF changed THEN newParents ELSE tree.parents
    IN  [tree EXCEPT !.spouse = updatedSpouse, !.parents = updatedParents]

RECURSIVE deleteNode(_, _)
deleteNode(tree, targetId) ==
  IF tree.id = targetId THEN Null
  ELSE
    LET updatedSpouse ==
          IF tree.spouse # <<>>
          THEN LET res == deleteNode(tree.spouse[1], targetId)
               IN  IF res = Null THEN <<>>
                   ELSE IF res # tree.spouse[1] THEN <<res>>
                   ELSE tree.spouse
          ELSE tree.spouse
        results ==
          [i \in 1..Len(tree.parents) |->
             deleteNode(tree.parents[i], targetId)]
        newParents == SelectSeq(results, LAMBDA res : res # Null)
        changed ==
          \E i \in 1..Len(tree.parents) :
            results[i] = Null \/ results[i] # tree.parents[i]
        updatedParents == IF changed THEN newParents ELSE tree.parents
    IN  IF updatedSpouse # tree.spouse \/ updatedParents # tree.parents
        THEN [tree EXCEPT !.spouse = updatedSpouse,
                          !.parents = updatedParents]
        ELSE tree

-----------------------------------------------------------------------------
(* addParentToNode, addSpouseToNode *)

\* Number of members the recursion of addParentToNode / addSpouseToNode stops
\* at: a member carrying the target id, not below another such member.
RECURSIVE Matches(_, _)
Matches(tree, targetId) ==
  IF tree.id = targetId THEN 1
  ELSE Sum([i \in 1..Len(tree.spouse) |-> Matches(tree.spouse[i], targetId)])
     + Sum([i \in 1..Len(tree.parents) |-> Matches(tree.parents[i], targetId)])

newParent(current, t, r) ==
  [id |-> NewId(t, r),
   name |-> "New Ancestor",
   year |-> NumToString(NumAdd(parseInt(current.year), -25)),
   imageUrl |-> PlaceholderImage,
   relationship |-> "Parent",
   parents |-> <<>>,
   spouse |-> <<>>]

\* addParentToNode that sets parents to the new member alone
RECURSIVE addParentToNodeReplaces(_, _, _, _)
addParentToNodeReplaces(current, targetId, t, rs) ==
  IF current.id = targetId
  THEN [current EXCEPT !.parents = <<newParent(current, t, rs[1])>>]
  ELSE
    LET inSpouse ==
          Sum([i \in 1..Len(current.spouse) |->
                 Matches(current.spouse[i], targetId)])
        before(i) ==
          inSpouse + Sum([j \in 1..(i - 1) |->
                            Matches(current.parents[j], targetId)])
    IN  [current EXCEPT
           !.spouse =
             [i \in 1..Len(@) |->
                addParentToNodeReplaces(@[i], targetId, t,
                                        SubSeq(rs, 1, inSpouse))],
           !.parents =
             [i \in 1..Len(@) |->
                addParentToNodeReplaces(@[i], targetId, t,
                  SubSeq(rs, before(i) + 1,
                         before(i) + Matches(@[i], targetId)))]]

\* t is the value of Date.now() during the call; rs holds one Math.random()
\* draw for each member the recursion stops at, in the order it reaches them
RECURSIVE addParentToNode(_, _, _, _)
addParentToNode(current, targetId, t, rs) ==
  IF current.id = targetId
  THEN [current EXCEPT !.parents = Append(@, newParent(current, t, rs[1]))]
  ELSE
    LET inSpouse ==
          Sum([i \in 1..Len(current.spouse) |->
                 Matches(current.spouse[i], targetId)])
        before(i) ==
          inSpouse + Sum([j \in 1..(i - 1) |->
                            Matches(current.parents[j], targetId)])
        updatedSpouse ==
          IF current.spouse # <<>>
          THEN <<addParentToNode(current.spouse[1], targetId, t,
                                 SubSeq(rs, 1, inSpouse))>>
          ELSE current.spouse
        updatedParents ==
          IF Len(current.parents) > 0
          THEN [i \in 1..Len(current.parents) |->
                  addParentToNode(current.parents[i], targetId, t,
                    SubSeq(rs, before(i) + 1,
                           before(i) + Matches(current.parents[i], targetId)))]
          ELSE current.parents
    IN  [current EXCEPT !.spouse = updatedSpouse, !.parents = updatedParents]

newSpouse(current, t) ==
  [id |-> SpouseId(t),
   name |-> "New Spouse",
   year |-> current.year,
   imageUrl |-> PlaceholderImage,
   relationship |-> "Spouse",
   parents |-> <<>>,
   spouse |-> <<>>]

\* addSpouseToNode without the check for an existing spouse
RECURSIVE addSpouseToNodeReplaces(_, _, _)
addSpouseToNodeReplaces(current, targetId, t) ==
  IF current.id = targetId
  THEN [current EXCEPT !.spouse = <<newSpouse(current, t)>>]
  ELSE [current EXCEPT
          !.spouse =
            [i \in 1..Len(@) |-> addSpouseToNodeReplaces(@[i], targetId, t)],
          !.parents =
            [i \in 1..Len(@) |-> addSpouseToNodeReplaces(@[i], targetId, t)]]

RECURSIVE addSpouseToNode(_, _, _)
addSpouseToNode(current, targetId, t) ==
  IF current.id = targetId
  THEN IF current.spouse # <<>> THEN current
       ELSE [current EXCEPT !.spouse = <<newSpouse(current, t)>>]
  ELSE
    LET updatedSpouse ==
          IF current.spouse # <<>>
          THEN <<addSpouseToNode(current.spouse[1], targetId, t)>>
          ELSE current.spouse
        updatedParents ==
          IF Len(current.parents) > 0
          THEN [i \in 1..Len(current.parents) |->
                  addSpouseToNode(current.parents[i], targetId, t)]
          ELSE current.parents
    IN  [current EXCEPT !.spouse = updatedSpouse, !.parents = updatedParents]

AlreadyHasSpouse == "alert: This member already has a spouse."

\* the alerts addSpouseToNode raises on its way through the structure
RECURSIVE addSpouseAlerts(_, _)
addSpouseAlerts(current, targetId) ==
  IF current.id = targetId
  THEN IF current.spouse # <<>> THEN <<AlreadyHasSpouse>> ELSE <<>>
  ELSE
    LET RECURSIVE join(_)
        join(s) == IF s = <<>> THEN <<>> ELSE Head(s) \o join(Tail(s))
    IN  join([i \in 1..Len(current.spouse) |->
                addSpouseAlerts(current.spouse[i], targetId)])
        \o join([i \in 1..Len(current.parents) |->
                   addSpouseAlerts(current.parents[i], targetId)])

-----------------------------------------------------------------------------
(* The handlers of App, as functions of the state they read *)

CannotDeleteRoot == "alert: Cannot delete the root person of the tree."

DeleteBlocked == "console.warn: Attempted to delete member. Action blocked."

Deleting == "console.log: Deleting member"

DeleteFailed ==
  "console.error: Failed to generate new tree data after deletion."

OnlyFromRoot ==
  "alert: In this view, you can only extend descendants from the root of the tree."

\* result of a handler: the tree it leaves in the state, whether it closes
\* the editor, and the notices it raises
Outcome(tree, close, notes) ==
  [data |-> tree, close |-> close, notes |-> notes]

handleUpdateMember(prev, id, updates) ==
  Outcome(updateNode(prev, id, updates), FALSE, <<>>)

\* handleDeleteMember that blocks from degree 3 on
handleDeleteMemberLoose(d, id) ==
  IF id = d.id THEN Outcome(d, FALSE, <<CannotDeleteRoot>>)
  ELSE IF calculateDegree(d, id) > 2
  THEN Outcome(d, FALSE, <<DeleteBlocked>>)
  ELSE LET newData == deleteNode(d, id)
       IN  IF newData # Null
           THEN Outcome(newData, TRUE, <<Deleting>>)
           ELSE Outcome(d, FALSE, <<Deleting, DeleteFailed>>)

\* handleDeleteMember that only checks the degree, and puts the first parent
\* in the place of a root that deleteNode removed
handleDeleteMemberUnguarded(d, id) ==
  IF calculateDegree(d, id) > 1
  THEN Outcome(d, FALSE, <<DeleteBlocked>>)
  ELSE LET newData == deleteNode(d, id)
       IN  IF newData # Null
           THEN Outcome(newData, TRUE, <<Deleting>>)
           ELSE IF d.parents # <<>>
           THEN Outcome(d.parents[1], TRUE, <<Deleting>>)
           ELSE Outcome(d, FALSE, <<Deleting, DeleteFailed>>)

\* handleDeleteMember that stores the new tree and leaves the editor open
handleDeleteMemberKeepsEditor(d, id) ==
  IF id = d.id THEN Outcome(d, FALSE, <<CannotDeleteRoot>>)
  ELSE IF calculateDegree(d, id) > 1
  THEN Outcome(d, FALSE, <<DeleteBlocked>>)
  ELSE LET newData == deleteNode(d, id)
       IN  IF newData # Null
           THEN Outcome(newData, FALSE, <<Deleting>>)
           ELSE Outcome(d, FALSE, <<Deleting, DeleteFailed>>)

handleDeleteMember(d, id) ==
  IF id = d.id THEN Outcome(d, FALSE, <<CannotDeleteRoot>>)
  ELSE IF calculateDegree(d, id) > 1
  THEN Outcome(d, FALSE, <<DeleteBlocked>>)
  ELSE LET newData == deleteNode(d, id)
       IN  IF newData # Null
           THEN Outcome(newData, TRUE, <<Deleting>>)
           ELSE Outcome(d, FALSE, <<Deleting, DeleteFailed>>)

handleAddParent(d, id, t, rs) ==
  Outcome(addParentToNode(d, id, t, rs), FALSE, <<>>)

\* handleAddSpouse that alerts whenever the tree comes back as it was
handleAddSpouseStrict(d, id, t) ==
  Outcome(addSpouseToNode(d, id, t), FALSE,
          IF addSpouseToNode(d, id, t) = d
          THEN <<AlreadyHasSpouse>> ELSE <<>>)

handleAddSpouse(d, id, t) ==
  Outcome(addSpouseToNode(d, id, t), FALSE, addSpouseAlerts(d, id))

\* handleAddChild that links the previous root as it is
handleAddChildUntagged(d, id, t) ==
  IF id = d.id
  THEN Outcome([id |-> ChildId(t),
                name |-> "New Descendant",
                year |-> NumToString(NumAdd(parseInt(d.year), 25)),
                imageUrl |-> PlaceholderImage,
                relationship |-> Undefined,
                parents |-> <<d>>,
                spouse |-> <<>>],
               FALSE, <<>>)
  ELSE Outcome(d, FALSE, <<OnlyFromRoot>>)

handleAddChild(d, id, t) ==
  IF id = d.id
  THEN Outcome([id |-> ChildId(t),
                name |-> "New Descendant",
                year |-> NumToString(NumAdd(parseInt(d.year), 25)),
                imageUrl |-> PlaceholderImage,
                relationship |-> Undefined,
                parents |-> <<[d EXCEPT !.relationship = "Parent"]>>,
                spouse |-> <<>>],
               FALSE, <<>>)
  ELSE Outcome(d, FALSE, <<OnlyFromRoot>>)

\* what the editor is given of the member it was opened on
Snapshot(member) ==
  [id |-> member.id, name |-> member.name, year |-> member.year,
   imageUrl |-> member.imageUrl, relationship |-> member.relationship]

\* canDelete that asks for a connection without counting them
canDeleteAnyDegree ==
  IF editingMember # <<>>
  THEN editingMember[1].id # data.id
       /\ calculateDegree(data, editingMember[1].id) >= 1
  ELSE FALSE

\* canDelete, as passed to the editor
canDelete ==
  IF editingMember # <<>>
  THEN editingMember[1].id # data.id
       /\ calculateDegree(data, editingMember[1].id) = 1
  ELSE FALSE

-----------------------------------------------------------------------------
(* LegacyTree: the expansion set *)

\* toggleSpouse that only ever adds
toggleSpouseAdds(expanded, id) == expanded \cup {id}

toggleSpouse(expanded, id) ==
  IF id \in expanded THEN expanded \ {id} ELSE expanded \cup {id}

-----------------------------------------------------------------------------
(* LegacyTree: the camera *)

\* a d3.ZoomTransform: translation x, y and scale k, k in hundredths
initialTransform(width, height) ==
  [x |-> width \div 2, y |-> height - 150, k |-> 85]

\* the transform the effect applies without looking at the stored one
applyStoredZoomRecentres(stored, size) ==
  initialTransform(size.width, size.height)

\* the transform the effect hands to zoom.transform: the stored one if there
\* is one, else the initial one
applyStoredZoom(stored, size) ==
  IF stored # Null THEN stored
  ELSE initialTransform(size.width, size.height)

\* window sizes
Windows ==
  {[width |-> 1024, height |-> 768], [width |-> 800, height |-> 600]}

InitialWindow == [width |-> 1024, height |-> 768]

\* transforms a wheel or drag gesture leaves, scale within scaleExtent
Gestures == {[x |-> 0, y |-> 0, k |-> 100], [x |-> 300, y |-> 40, k |-> 200]}

-----------------------------------------------------------------------------
(* LegacyTree: the elements with a click listener that one pass draws *)

\* an element, the id its listener passes on, and the position in the tree of
\* the member it was drawn for
Element(kind, member, p) == [kind |-> kind, id |-> member.id, at |-> p]

\* d3.hierarchy(...).descendants() of the member at p: transformData makes
\* the parents the children of the hierarchy, the spouse is not a child
RECURSIVE descendants(_, _)
descendants(tree, p) ==
  {p} \cup UNION {descendants(tree, Append(p, i)) :
                    i \in 1..Len(NodeAt(tree, p).parents)}

\* renderTreeRecursive that hands the whole hierarchy of the spouse on
RECURSIVE renderTreeRecursiveUnfiltered(_, _, _)
renderTreeRecursiveUnfiltered(tree, expanded, nodes) ==
  UNION {
    LET d == NodeAt(tree, p)
        main == {Element("member", d, p), Element("ancestorBtn", d, p),
                 Element("descendantBtn", d, p)}
    IN  IF d.spouse = <<>> THEN main \cup {Element("sideBtn", d, p)}
        ELSE LET spouse == d.spouse[1]
                 sp == Append(p, 0)
             IN  main \cup {Element("spouse", spouse, sp),
                            Element("sEditBtn", spouse, sp)}
                   \cup (IF spouse.id \in expanded
                         THEN renderTreeRecursiveUnfiltered(
                                tree, expanded, descendants(tree, sp))
                         ELSE {})
    : p \in nodes}

\* renderTreeRecursive that gives the spouse portrait the add-ancestor and
\* add-spouse controls of a member
RECURSIVE renderTreeRecursiveSpouseButtons(_, _, _)
renderTreeRecursiveSpouseButtons(tree, expanded, nodes) ==
  UNION {
    LET d == NodeAt(tree, p)
        main == {Element("member", d, p), Element("ancestorBtn", d, p),
                 Element("descendantBtn", d, p)}
    IN  IF d.spouse = <<>> THEN main \cup {Element("sideBtn", d, p)}
        ELSE LET spouse == d.spouse[1]
                 sp == Append(p, 0)
                 subTreeNodes == descendants(tree, sp) \ {sp}
             IN  main \cup {Element("spouse", spouse, sp),
                            Element("sEditBtn", spouse, sp),
                            Element("ancestorBtn", spouse, sp),
                            Element("sideBtn", spouse, sp)}
                   \cup (IF spouse.id \in expanded
                         THEN renderTreeRecursiveSpouseButtons(
                                tree, expanded, subTreeNodes)
                         ELSE {})
    : p \in nodes}

\* nodes are positions of the tree. spouseTreeLayout is set by the
\* pre-calculation on every member the rendering reaches whose spouse is
\* expanded, so the test on it adds nothing to expandedSpouseIds.has.
RECURSIVE renderTreeRecursive(_, _, _)
renderTreeRecursive(tree, expanded, nodes) ==
  UNION {
    LET d == NodeAt(tree, p)
        main == {Element("member", d, p), Element("ancestorBtn", d, p),
                 Element("descendantBtn", d, p)}
    IN  IF d.spouse = <<>> THEN main \cup {Element("sideBtn", d, p)}
        ELSE LET spouse == d.spouse[1]
                 sp == Append(p, 0)
                 subTreeNodes == descendants(tree, sp) \ {sp}
             IN  main \cup {Element("spouse", spouse, sp),
                            Element("sEditBtn", spouse, sp)}
                   \cup (IF spouse.id \in expanded
                         THEN renderTreeRecursive(tree, expanded, subTreeNodes)
                         ELSE {})
    : p \in nodes}

\* the effect without the removal of what the SVG holds
redrawKeeps(old, tree, expanded) ==
  old \cup renderTreeRecursive(tree, expanded, descendants(tree, <<>>))

\* one pass of the effect: everything in the SVG is removed, then the main
\* tree is rendered
redraw(old, tree, expanded) ==
  LET remaining == {e \in old : FALSE}
  IN  remaining
        \cup renderTreeRecursive(tree, expanded, descendants(tree, <<>>))

-----------------------------------------------------------------------------
(* LegacyTree: what a click runs *)

\* the element a group is appended to
parentNode(kind) ==
  CASE kind \in {"member", "controls", "spouse", "spouseControls"} -> "node"
    [] kind \in {"ancestorBtn", "descendantBtn", "sideBtn"} -> "controls"
    [] kind = "sEditBtn" -> "spouseControls"
    [] kind = "node" -> "nodes"
    [] kind = "nodes" -> "zoomGroup"
    [] kind = "zoomGroup" -> "svg"
    [] OTHER -> "none"

\* the callback of the click listener of a group, if it has one
onClick(kind) ==
  CASE kind \in {"member", "sEditBtn"} -> <<"onEdit">>
    [] kind = "ancestorBtn" -> <<"onAddParent">>
    [] kind = "descendantBtn" -> <<"onAddChild">>
    [] kind = "sideBtn" -> <<"onAddSpouse">>
    [] kind = "spouse" -> <<"toggleSpouse">>
    [] OTHER -> <<>>

\* the listener calls e.stopPropagation()
stopsPropagation(kind) ==
  kind \in {"member", "ancestorBtn", "descendantBtn", "sideBtn", "spouse",
            "sEditBtn"}

\* a click that also reaches the listener of the member's own group
dispatchThroughMember(kind) ==
  onClick(kind)
    \o (IF kind \in {"ancestorBtn", "descendantBtn", "sideBtn", "sEditBtn"}
        THEN onClick("member") ELSE <<>>)

\* the callbacks a click on a group runs, in order: its own listener, then,
\* unless propagation was stopped, those of the groups around it
RECURSIVE dispatch(_)
dispatch(kind) ==
  IF kind = "none" THEN <<>>
  ELSE onClick(kind)
         \o (IF onClick(kind) # <<>> /\ stopsPropagation(kind) THEN <<>>
             ELSE dispatch(parentNode(kind)))

-----------------------------------------------------------------------------
(* Inputs *)

\* ids a handler may be called with: those in the tree and one that is not
CallIds == Ids(data) \cup {AbsentId}

\* values of Date.now() a handler may read: time does not run backwards
Clock == {now, now + 1}

EmptyPatch == <<>>

EditedName == "Ann Legacy"

EditedImage == "data:image/png;base64,AAAA"

\* the updates passed to onSave: any subset of the four editable fields
Patches ==
  { EmptyPatch,
    "year" :> <<" ", "7", "a">> @@ "relationship" :> "",
    "name" :> EditedName @@ "year" :> <<>>
      @@ "imageUrl" :> EditedImage @@ "relationship" :> "Aunt" }

\* the record of the last event: what the handler was called with, the
\* tree and the editor it found, the notices it raised, the element that was
\* clicked and the callbacks the click ran, whether the drawing effect ran
Call(op, id, patch, t, rs, notes) ==
  [op |-> op, id |-> id, patch |-> patch, t |-> t, rs |-> rs,
   before |-> data, editor |-> editingMember, notes |-> notes,
   target |-> "none", invoked |-> <<>>, redrawn |-> FALSE]

NoCall(tree) ==
  [op |-> "init", id |-> AbsentId, patch |-> EmptyPatch, t |-> 0,
   rs |-> <<>>, before |-> tree, editor |-> <<>>, notes |-> <<>>,
   target |-> "none", invoked |-> <<>>, redrawn |-> TRUE]

\* The trees the handlers build from a lone root by adding one member per
\* millisecond: every shape of up to n members, with the ids and years the
\* handlers give them.
LoneRoot == [INITIAL_DATA EXCEPT !.parents = <<>>]

GrowOnce(tree) ==
  LET t == Size(tree) IN
    {addParentToNode(tree, id, t, <<1>>) : id \in Ids(tree)}
      \cup {addSpouseToNode(tree, id, t) : id \in Ids(tree)}
      \cup {handleAddChild(tree, tree.id, t).data}

RECURSIVE Grown(_)
Grown(n) ==
  IF n <= 1 THEN {LoneRoot}
  ELSE LET smaller == Grown(n - 1)
       IN  smaller \cup
           UNION {GrowOnce(tree) : tree \in {s \in smaller : Size(s) = n - 1}}

-----------------------------------------------------------------------------
(* Actions *)

\* What the callbacks created by a render hold of the state: handleAddParent,
\* handleAddSpouse, handleAddChild and handleDeleteMember read the `data` of
\* the render that created them, toggleSpouse the `expandedSpouseIds`. The
\* listeners of the drawing call the callbacks of the render whose effect
\* bound them.
Captured(tree, expanded) ==
  [data |-> tree, expandedSpouseIds |-> expanded]

\* The state after the first render: the effect has run once, with no stored
\* transform, and the zoom listener has stored the transform it applied.
Mounted(tree, expanded) ==
  /\ data = tree
  /\ expandedSpouseIds = expanded
  /\ dimensions = InitialWindow
  /\ transform = applyStoredZoom(Null, dimensions)
  /\ currentZoomState = transform
  /\ drawn = redraw({}, tree, expanded)
  /\ rendered = Captured(tree, expanded)
  /\ calls = 0
  /\ last = NoCall(tree)

Init ==
  /\ Mounted(INITIAL_DATA, {})
  /\ editingMember = <<>>
  /\ now = 0

\* One pass of the drawing effect on the state the event leaves. The call of
\* zoom.transform runs the zoom listener, which stores what was applied.
Redraw ==
  /\ drawn' = redraw(drawn, data', expandedSpouseIds')
  /\ transform' = applyStoredZoom(currentZoomState, dimensions')
  /\ currentZoomState' = transform'
  /\ rendered' = Captured(data', expandedSpouseIds')

\* The effect runs when the event has set a state of App or LegacyTree to a
\* new object: App then renders with new callbacks, which are dependencies
\* of the effect.
Rerender(changed) ==
  IF changed THEN Redraw
  ELSE UNCHANGED <<drawn, transform, currentZoomState, rendered>>

Apply(out) ==
  /\ data' = out.data
  /\ editingMember' = IF out.close THEN <<>> ELSE editingMember
  /\ calls' = calls + 1
  /\ UNCHANGED <<dimensions, expandedSpouseIds>>

Redrawn(call, changed) == [call EXCEPT !.redrawn = changed]

\* updateNode returns a new object whatever the id
UpdateMember ==
  \E id \in CallIds, updates \in Patches :
    /\ calls < MaxCalls
    /\ Apply(handleUpdateMember(data, id, updates))
    /\ last' = Redrawn(Call("save", id, updates, now, <<>>, <<>>), TRUE)
    /\ UNCHANGED now
    /\ Rerender(TRUE)

\* deleteNode returns the object it was given when nothing was removed
DeleteMember ==
  \E id \in CallIds :
    LET out == handleDeleteMember(data, id)
        changed == out.data # data \/ (out.close /\ editingMember # <<>>)
    IN  /\ calls < MaxCalls
        /\ Apply(out)
        /\ last' = Redrawn(Call("delete", id, EmptyPatch, now, <<>>,
                                out.notes), changed)
        /\ UNCHANGED now
        /\ Rerender(changed)

\* addParentToNode returns a new object whatever the id
AddParent ==
  \E id \in CallIds, t \in Clock :
    \E rs \in [1..Matches(data, id) -> Rand] :
      LET out == handleAddParent(data, id, t, rs)
      IN  /\ calls < MaxCalls
          /\ Apply(out)
          /\ now' = t
          /\ last' = Redrawn(Call("addParent", id, EmptyPatch, t, rs,
                                  out.notes), TRUE)
          /\ Rerender(TRUE)

\* addSpouseToNode returns the object it was given only when the root is the
\* target and has a spouse
AddSpouse ==
  \E id \in CallIds, t \in Clock :
    LET out == handleAddSpouse(data, id, t)
        changed == ~(id = data.id /\ data.spouse # <<>>)
    IN  /\ calls < MaxCalls
        /\ Apply(out)
        /\ now' = t
        /\ last' = Redrawn(Call("addSpouse", id, EmptyPatch, t, <<>>,
                                out.notes), changed)
        /\ Rerender(changed)

\* handleAddChild sets no state when the id is not the root's
AddChild ==
  \E id \in CallIds, t \in Clock :
    LET out == handleAddChild(data, id, t)
        changed == id = data.id
    IN  /\ calls < MaxCalls
        /\ Apply(out)
        /\ now' = t
        /\ last' = Redrawn(Call("addChild", id, EmptyPatch, t, <<>>,
                                out.notes), changed)
        /\ Rerender(changed)

\* onEdit: the editor opens on a member of the tree; while it is open its
\* overlay covers the tree
Edit ==
  \E p \in Paths(data) :
    /\ calls < MaxCalls
    /\ editingMember = <<>>
    /\ editingMember' = <<Snapshot(NodeAt(data, p))>>
    /\ calls' = calls + 1
    /\ last' = Redrawn(Call("edit", NodeAt(data, p).id, EmptyPatch, now,
                            <<>>, <<>>), TRUE)
    /\ UNCHANGED <<data, now, dimensions, expandedSpouseIds>>
    /\ Rerender(TRUE)

\* handleSubmit of the editor: onSave with the four form fields, then onClose.
\* The form starts from the member the editor was opened on (relationship
\* `|| ''`) and the user may have retyped any field.
Submit ==
  \E name \in {editingMember[i].name : i \in 1..Len(editingMember)}
                \cup {EditedName},
     year \in {editingMember[i].year : i \in 1..Len(editingMember)}
                \cup {<<"4", "0">>},
     relationship \in
       {IF editingMember[i].relationship = Undefined
        THEN "" ELSE editingMember[i].relationship :
          i \in 1..Len(editingMember)} :
    LET updates == "name" :> name @@ "year" :> year
                     @@ "imageUrl" :> editingMember[1].imageUrl
                     @@ "relationship" :> relationship
        id == editingMember[1].id
    IN  /\ calls < MaxCalls
        /\ editingMember # <<>>
        /\ data' = handleUpdateMember(data, id, updates).data
        /\ editingMember' = <<>>
        /\ calls' = calls + 1
        /\ last' = Redrawn(Call("save", id, updates, now, <<>>, <<>>), TRUE)
        /\ UNCHANGED <<now, dimensions, expandedSpouseIds>>
        /\ Rerender(TRUE)

\* onClose
Close ==
  /\ calls < MaxCalls
  /\ editingMember # <<>>
  /\ editingMember' = <<>>
  /\ calls' = calls + 1
  /\ last' = Redrawn(Call("close", editingMember[1].id, EmptyPatch, now,
                          <<>>, <<>>), TRUE)
  /\ UNCHANGED <<data, now, dimensions, expandedSpouseIds>>
  /\ Rerender(TRUE)

\* A click on a drawn spouse, the only caller of toggleSpouse. The tree is
\* under the overlay of the editor while the editor is open.
ToggleSpouse ==
  \E e \in drawn :
    /\ calls < MaxCalls
    /\ editingMember = <<>>
    /\ e.kind = "spouse"
    /\ expandedSpouseIds' = toggleSpouse(expandedSpouseIds, e.id)
    /\ calls' = calls + 1
    /\ last' = Redrawn(Call("toggle", e.id, EmptyPatch, now, <<>>, <<>>),
                       TRUE)
    /\ UNCHANGED <<data, editingMember, now, dimensions>>
    /\ Rerender(TRUE)

\* A wheel or drag gesture on the SVG: the zoom listener sets the transform
\* of the zoom group and stores it. No React state is set.
Zoom ==
  \E z \in Gestures :
    /\ calls < MaxCalls
    /\ editingMember = <<>>
    /\ transform' = z
    /\ currentZoomState' = z
    /\ calls' = calls + 1
    /\ last' = Call("zoom", AbsentId, EmptyPatch, now, <<>>, <<>>)
    /\ UNCHANGED <<data, editingMember, now, dimensions, expandedSpouseIds,
                   drawn, rendered>>

\* handleResize: the window has a new size
Resize ==
  \E size \in Windows \ {dimensions} :
    /\ calls < MaxCalls
    /\ dimensions' = size
    /\ calls' = calls + 1
    /\ last' = Redrawn(Call("resize", AbsentId, EmptyPatch, now, <<>>, <<>>),
                       TRUE)
    /\ UNCHANGED <<data, editingMember, now, expandedSpouseIds>>
    /\ Rerender(TRUE)

\* A click on an element of the drawing while the editor is closed: the
\* callbacks that dispatch gives for the element run, each on the state of
\* the render the listeners were created in.
Click ==
  \E e \in drawn, t \in Clock :
    \E rs \in [1..Matches(data, e.id) -> Rand] :
      LET invoked == dispatch(e.kind)
          Runs(cb) == \E i \in 1..Len(invoked) : invoked[i] = cb
          adds == Runs("onAddParent") \/ Runs("onAddSpouse")
                    \/ Runs("onAddChild")
          out == IF Runs("onAddParent")
                 THEN handleAddParent(data, e.id, t, rs)
                 ELSE IF Runs("onAddSpouse")
                 THEN handleAddSpouse(data, e.id, t)
                 ELSE IF Runs("onAddChild")
                 THEN handleAddChild(data, e.id, t)
                 ELSE Outcome(data, FALSE, <<>>)
          op == CASE invoked = <<>> -> "click"
                  [] Head(invoked) = "onEdit" -> "edit"
                  [] Head(invoked) = "onAddParent" -> "addParent"
                  [] Head(invoked) = "onAddSpouse" -> "addSpouse"
                  [] Head(invoked) = "onAddChild" -> "addChild"
                  [] OTHER -> "toggle"
          changed == \/ Runs("onEdit") \/ Runs("toggleSpouse")
                     \/ Runs("onAddParent")
                     \/ Runs("onAddSpouse")
                          /\ ~(e.id = data.id /\ data.spouse # <<>>)
                     \/ Runs("onAddChild") /\ e.id = data.id
      IN  /\ calls < MaxCalls
          /\ editingMember = <<>>
          /\ adds \/ t = now
          /\ Runs("onAddParent") \/ \A i \in DOMAIN rs : rs[i] = 1
          /\ data' = out.data
          /\ editingMember' =
               IF Runs("onEdit") THEN <<Snapshot(NodeAt(data, e.at))>>
               ELSE editingMember
          /\ expandedSpouseIds' =
               IF Runs("toggleSpouse")
               THEN toggleSpouse(expandedSpouseIds, e.id)
               ELSE expandedSpouseIds
          /\ now' = t
          /\ calls' = calls + 1
          /\ last' = [Call(op, e.id, EmptyPatch, t,
                           IF Runs("onAddParent") THEN rs ELSE <<>>,
                           out.notes)
                        EXCEPT !.target = e.kind, !.invoked = invoked,
                               !.redrawn = changed]
          /\ UNCHANGED dimensions
          /\ Rerender(changed)

\* handleDelete of the editor: the delete button exists when canDelete holds
DeleteClick ==
  LET id == editingMember[1].id
      out == handleDeleteMember(data, id)
      changed == out.data # data \/ out.close
  IN  /\ calls < MaxCalls
      /\ editingMember # <<>>
      /\ canDelete
      /\ Apply(out)
      /\ last' = Redrawn(Call("delete", id, EmptyPatch, now, <<>>,
                              out.notes), changed)
      /\ UNCHANGED now
      /\ Rerender(changed)

Next ==
  \/ UpdateMember
  \/ DeleteMember
  \/ AddParent
  \/ AddSpouse
  \/ AddChild
  \/ Edit
  \/ Submit
  \/ Close
  \/ ToggleSpouse
  \/ Zoom
  \/ Resize

Spec == Init /\ [][Next]_vars

\* What the user can do from the seed tree: click what is drawn, move the
\* camera, resize the window, and use the buttons of the editor.
NextUI ==
  \/ Click
  \/ Zoom
  \/ Resize
  \/ Submit
  \/ Close
  \/ DeleteClick

SpecUI == Init /\ [][NextUI]_vars

\* One event on every tree of up to MaxNodes members, the editor closed or
\* open on one of the members.
InitTrees ==
  /\ \E tree \in Grown(MaxNodes) : Mounted(tree, {})
  /\ editingMember \in
       {<<>>} \cup {<<Snapshot(NodeAt(data, p))>> : p \in Paths(data)}
  /\ now = Size(data) - 1

NextOnce ==
  \/ calls = 0 /\ UpdateMember
  \/ calls = 0 /\ DeleteMember
  \/ calls = 0 /\ AddParent
  \/ calls = 0 /\ AddSpouse
  \/ calls = 0 /\ AddChild
  \/ calls = 0 /\ Edit
  \/ calls = 0 /\ Submit
  \/ calls = 0 /\ Close

SpecTrees == InitTrees /\ [][NextOnce]_vars

\* The behaviours of Next from the state in which the member p2 of the seed
\* tree has been given a spouse: the first state with a spouse to click on.
SeedWithSpouse == addSpouseToNode(INITIAL_DATA, SeedId("p2"), 0)

InitSpoused ==
  /\ Mounted(SeedWithSpouse, {})
  /\ editingMember = <<>>
  /\ now = 0

SpecSpoused == InitSpoused /\ [][Next]_vars

\* One event on every tree of up to MaxNodes members, drawn with any of its
\* spouses expanded, the editor closed.
InitView ==
  /\ \E tree \in Grown(MaxNodes) :
       \E expanded \in SUBSET {NodeAt(tree, p).id :
                                 p \in {q \in Paths(tree) :
                                          q # <<>> /\ q[Len(q)] = 0}} :
         Mounted(tree, expanded)
  /\ editingMember = <<>>
  /\ now = Size(data) - 1

NextView ==
  \/ calls = 0 /\ ToggleSpouse
  \/ calls = 0 /\ UpdateMember
  \/ calls = 0 /\ DeleteMember
  \/ calls = 0 /\ AddParent
  \/ calls = 0 /\ AddSpouse
  \/ calls = 0 /\ AddChild
  \/ calls = 0 /\ Resize

SpecView == InitView /\ [][NextView]_vars

-----------------------------------------------------------------------------
(* Reading the structure by position, for the statements below *)

PathsOf(tree, id) == {p \in Paths(tree) : NodeAt(tree, p).id = id}

PathOf(tree, id) == CHOOSE p \in Paths(tree) : NodeAt(tree, p).id = id

NodeOf(tree, id) == NodeAt(tree, PathOf(tree, id))

\* a member without what hangs from it
Fields(member) ==
  [id |-> member.id, name |-> member.name, year |-> member.year,
   imageUrl |-> member.imageUrl, relationship |-> member.relationship]

IdsOf(members) == [i \in 1..Len(members) |-> members[i].id]

\* a member with the ids of the members it refers to
Links(member) ==
  [fields |-> Fields(member), parents |-> IdsOf(member.parents),
   spouse |-> IdsOf(member.spouse)]

Drop(idSeq, id) == SelectSeq(idSeq, LAMBDA j : j # id)

\* number of references to id held by the members of the tree
References(tree, id) ==
  Cardinality({<<p, i>> \in Paths(tree) \X (0..Size(tree)) :
    LET m == NodeAt(tree, p)
    IN  \/ i = 0 /\ m.spouse # <<>> /\ m.spouse[1].id = id
        \/ i \in 1..Len(m.parents) /\ m.parents[i].id = id})

-----------------------------------------------------------------------------
(* Delete requests *)

\* C1: a delete request whose id is the root's, or whose id has a degree
\* above 1 in the tree, is rejected: the tree after it is the tree before it,
\* and the only notice is the rejection.
DeleteRejectedKeepsTree ==
  (last.op = "delete"
     /\ (last.id = last.before.id
           \/ calculateDegree(last.before, last.id) > 1))
  => /\ data = last.before
     /\ last.notes \in {<<CannotDeleteRoot>>, <<DeleteBlocked>>}

DeleteRejectedSeen ==
  /\ last.op = "delete"
  /\ last.id # last.before.id
  /\ calculateDegree(last.before, last.id) > 1
  /\ NodeOf(last.before, last.id).parents # <<>>

\* C2: in a tree with unique ids, a delete request for a member other than
\* the root whose degree is 1 removes that member and all that hangs from
\* it, removes the one reference to it, and leaves every other member with
\* its fields, its spouse and its parents in their order.
DeleteRemovesMember ==
  (last.op = "delete"
     /\ UniqueIds(last.before)
     /\ last.id # last.before.id
     /\ calculateDegree(last.before, last.id) = 1)
  => /\ Ids(NodeOf(last.before, last.id)) \cap Ids(data) = {}
     /\ Ids(data) = Ids(last.before) \ Ids(NodeOf(last.before, last.id))
     /\ Size(data) = Cardinality(Ids(data))
     /\ References(last.before, last.id) = 1
     /\ References(data, last.id) = 0
     /\ \A j \in Ids(data) :
          LET was == Links(NodeOf(last.before, j))
              is == Links(NodeOf(data, j))
          IN  /\ is.fields = was.fields
              /\ is.parents = Drop(was.parents, last.id)
              /\ is.spouse = Drop(was.spouse, last.id)

DeleteRemovesMemberSeen ==
  /\ last.op = "delete"
  /\ UniqueIds(last.before)
  /\ last.id # last.before.id
  /\ calculateDegree(last.before, last.id) = 1
  /\ Size(data) = Size(last.before) - 1
  /\ \E p \in Paths(last.before) :
       /\ Len(NodeAt(last.before, p).parents) >= 2
       /\ NodeAt(last.before, p).parents[1].id = last.id

\* C3: no delete request removes the root: the state always holds a tree,
\* and after a delete request the root is the member it was, with the
\* fields it had.
RootNeverDeleted ==
  /\ data # Null
  /\ Size(data) >= 1
  /\ last.op = "delete" => Fields(data) = Fields(last.before)

RootDeleteSeen ==
  /\ last.op = "delete"
  /\ last.id = last.before.id
  /\ calculateDegree(last.before, last.id) <= 1
  /\ data = last.before

-----------------------------------------------------------------------------
(* Saving fields *)

\* C4: in a tree with unique ids, saving a patch of name, year, imageUrl
\* and relationship on an id of the tree yields a tree with the same members
\* at the same positions; the member with that id has the patched fields
\* overwritten and its other fields kept, every other member has the fields
\* it had; with the empty patch the tree is the tree before.
SaveChangesOnlyTarget ==
  (last.op = "save"
     /\ UniqueIds(last.before)
     /\ last.id \in Ids(last.before))
  => /\ Paths(data) = Paths(last.before)
     /\ \A p \in Paths(last.before) :
          LET was == Fields(NodeAt(last.before, p))
              is == Fields(NodeAt(data, p))
          IN  /\ is.id = was.id
              /\ \A f \in DOMAIN was :
                   is[f] = IF was.id = last.id /\ f \in DOMAIN last.patch
                           THEN last.patch[f] ELSE was[f]
     /\ last.patch = EmptyPatch => data = last.before

SaveBelowSpouseSeen ==
  /\ last.op = "save"
  /\ UniqueIds(last.before)
  /\ last.patch # EmptyPatch
  /\ \E p \in PathsOf(last.before, last.id) :
       /\ Len(p) >= 2
       /\ p[1] = 0
       /\ NodeAt(data, p).year # NodeAt(last.before, p).year

-----------------------------------------------------------------------------
(* Degree *)

\* the members of the structure by position
Members(tree) == [p \in Paths(tree) |-> NodeAt(tree, p)]

\* edges leaving a member: its parents and its spouse
Outgoing(member) == Len(member.parents) + Len(member.spouse)

\* members that list id among their parents, members whose spouse is id
Incoming(members, id) ==
    Cardinality({p \in DOMAIN members :
      \E i \in 1..Len(members[p].parents) : members[p].parents[i].id = id})
  + Cardinality({p \in DOMAIN members :
      \E i \in 1..Len(members[p].spouse) : members[p].spouse[i].id = id})

\* C5: in a tree with unique ids the degree of an id is the number of its
\* member's parents, plus 1 if it has a spouse, plus the number of members
\* that list it in their parents, plus the number of members whose spouse
\* it is; it is 0 for an id that is not in the tree.
DegreeCountsEdges ==
  UniqueIds(data) =>
    LET members == Members(data)
    IN  /\ \A p \in DOMAIN members :
             calculateDegree(data, members[p].id) =
               Outgoing(members[p]) + Incoming(members, members[p].id)
        /\ AbsentId \notin Ids(data)
        /\ calculateDegree(data, AbsentId) = 0

SpouseWithParentSeen ==
  /\ UniqueIds(data)
  /\ \E p \in Paths(data) :
       /\ p # <<>>
       /\ p[Len(p)] = 0
       /\ Len(NodeAt(data, p).parents) = 1
       /\ calculateDegree(data, NodeAt(data, p).id) = 2

-----------------------------------------------------------------------------
(* The seed tree *)

P1 == SeedId("p1")

GP1 == SeedId("gp1")

P2 == SeedId("p2")

\* C6 as stated: in the seed tree the degree of "p2", computed before
\* addSpouse(tree, "p2"), is 2.
SeedP2DegreeIsTwo ==
  (last.op = "addSpouse" /\ last.id = P2 /\ last.before = INITIAL_DATA)
  => calculateDegree(last.before, P2) = 2

\* C6, amended: in the seed tree the degree of "p2", computed before
\* addSpouse(tree, "p2"), is 1: the reference from the root's parents, and
\* nothing from its own empty parents and absent spouse.
SeedP2DegreeIsOne ==
  (last.op = "addSpouse" /\ last.id = P2 /\ last.before = INITIAL_DATA)
  => /\ calculateDegree(last.before, P2) = 1
     /\ calculateDegree(data, P2) = 2

SeedP2SpouseAdded ==
  /\ last.op = "addSpouse"
  /\ last.id = P2
  /\ last.before = INITIAL_DATA
  /\ NodeOf(data, P2).spouse # <<>>

\* C7 as stated: in the seed tree "p1" has degree 1, and a delete request
\* for it removes both "p1" and "gp1".
SeedP1DeleteRemovesBoth ==
  (last.op = "delete" /\ last.id = P1 /\ last.before = INITIAL_DATA)
  => /\ calculateDegree(last.before, P1) = 1
     /\ Ids(data) \cap {P1, GP1} = {}

\* C7, amended: in the seed tree "p1", which has one ancestor of its own,
\* has degree 2 (that ancestor and the reference from the root), so a delete
\* request for it is blocked and both "p1" and "gp1" stay in the tree.
SeedP1DeleteBlocked ==
  (last.op = "delete" /\ last.id = P1 /\ last.before = INITIAL_DATA)
  => /\ calculateDegree(last.before, P1) = 2
     /\ last.notes = <<DeleteBlocked>>
     /\ data = INITIAL_DATA
     /\ {P1, GP1} \subseteq Ids(data)

SeedP1DeleteSeen ==
  /\ last.op = "delete"
  /\ last.id = P1
  /\ last.before = INITIAL_DATA
  /\ calls = 1

-----------------------------------------------------------------------------
(* Adding members *)

\* the tree with the member at a position replaced
RECURSIVE Replaced(_, _, _)
Replaced(tree, path, member) ==
  IF path = <<>> THEN member
  ELSE IF Head(path) = 0
  THEN [tree EXCEPT !.spouse[1] = Replaced(@, Tail(path), member)]
  ELSE [tree EXCEPT !.parents[Head(path)] = Replaced(@, Tail(path), member)]

\* C8: in a tree with unique ids, addSpouse on an id of the tree whose
\* member has no spouse gives that member a spouse named "New Spouse", with
\* the member's year, relationship "Spouse", no parents and no spouse, and
\* changes nothing else; on a member that has a spouse it leaves the tree as
\* it was and raises the alert.
AddSpouseOnlyWhenNone ==
  (last.op = "addSpouse"
     /\ UniqueIds(last.before)
     /\ last.id \in Ids(last.before))
  => LET p == PathOf(last.before, last.id)
         target == NodeAt(last.before, p)
     IN  IF target.spouse = <<>>
         THEN /\ last.notes = <<>>
              /\ \E s \in {NodeAt(data, p).spouse[i] :
                             i \in 1..Len(NodeAt(data, p).spouse)} :
                   /\ s.name = "New Spouse"
                   /\ s.year = target.year
                   /\ s.relationship = "Spouse"
                   /\ s.parents = <<>>
                   /\ s.spouse = <<>>
                   /\ data = Replaced(last.before, p,
                                      [target EXCEPT !.spouse = <<s>>])
         ELSE /\ data = last.before
              /\ last.notes = <<AlreadyHasSpouse>>

AddSpouseRefusedSeen ==
  /\ last.op = "addSpouse"
  /\ UniqueIds(last.before)
  /\ last.id \in Ids(last.before)
  /\ NodeOf(last.before, last.id).spouse # <<>>
  /\ last.notes = <<AlreadyHasSpouse>>

\* the year is the decimal numeral of a number
IsNumeral(year) ==
  /\ ~parseInt(year).nan
  /\ year = NumToString(parseInt(year))

\* C9: in a tree with unique ids, addAncestor on an id of the tree whose
\* year is the numeral of Y appends one member to the end of that member's
\* parents: its year is the numeral of Y - 25, its name "New Ancestor", its
\* relationship "Parent", and it has no parents; the parents that were
\* there keep their positions and content, and nothing else changes.
AddParentAppends ==
  (last.op = "addParent"
     /\ UniqueIds(last.before)
     /\ last.id \in Ids(last.before)
     /\ IsNumeral(NodeOf(last.before, last.id).year))
  => LET p == PathOf(last.before, last.id)
         target == NodeAt(last.before, p)
         n == Len(target.parents)
         added == NodeAt(data, p).parents
     IN  /\ Len(added) = n + 1
         /\ SubSeq(added, 1, n) = target.parents
         /\ IsNumeral(added[n + 1].year)
         /\ parseInt(added[n + 1].year).val = parseInt(target.year).val - 25
         /\ added[n + 1].name = "New Ancestor"
         /\ added[n + 1].relationship = "Parent"
         /\ added[n + 1].parents = <<>>
         /\ data = Replaced(last.before, p, [target EXCEPT !.parents = added])
         /\ Size(data) = Size(last.before) + 1

AddParentToParentSeen ==
  /\ last.op = "addParent"
  /\ UniqueIds(last.before)
  /\ last.id \in Ids(last.before)
  /\ Len(NodeOf(last.before, last.id).parents) >= 2
  /\ Len(NodeOf(last.before, last.id).year) = 4
  /\ Size(data) = Size(last.before) + 1

\* C10: addDescendant changes the tree exactly when the id is the root's:
\* the new root is a new member whose parents hold one entry, the previous
\* root with all that hangs from it and relationship "Parent"; for any other
\* id the tree stays as it was and the alert is raised.
AddChildOnlyAtRoot ==
  last.op = "addChild" =>
    /\ data # last.before <=> last.id = last.before.id
    /\ last.id = last.before.id =>
         /\ data.id = ChildId(last.t)
         /\ Len(data.parents) = 1
         /\ data.parents[1] = [last.before EXCEPT !.relationship = "Parent"]
         /\ data.spouse = <<>>
         /\ Size(data) = Size(last.before) + 1
         /\ last.notes = <<>>
    /\ last.id # last.before.id =>
         /\ data = last.before
         /\ last.notes = <<OnlyFromRoot>>

AddChildAtRootSeen ==
  /\ last.op = "addChild"
  /\ last.id = last.before.id
  /\ last.before.relationship = Undefined
  /\ last.before.spouse # <<>>
  /\ data.parents[1].relationship = "Parent"

-----------------------------------------------------------------------------
(* Requests for an id that is not in the tree *)

\* the requests that can change the tree
MutationOps == {"save", "delete", "addParent", "addSpouse", "addChild"}

\* the notices raised with alert(): the ones the user sees
Alerts == {CannotDeleteRoot, AlreadyHasSpouse, OnlyFromRoot}

\* the notices raised with console.error()
Errors == {DeleteFailed}

Raised(notes) == {notes[i] : i \in 1..Len(notes)}

\* C11 (as stated): a save, delete, add ancestor, add spouse or add
\* descendant request whose id is not in the tree leaves the tree as it was
\* and raises neither an error nor a notice to the user.
AbsentIdIsSilent ==
  (last.op \in MutationOps /\ last.id \notin Ids(last.before))
  => /\ data = last.before
     /\ Raised(last.notes) \cap (Alerts \cup Errors) = {}

\* C11: a save, delete, add ancestor, add spouse or add descendant request
\* whose id is not in the tree leaves the tree as it was and raises no
\* error; save, delete, add ancestor and add spouse raise no notice to the
\* user, add descendant raises the notice of a request on a member other
\* than the root.
AbsentIdKeepsTree ==
  (last.op \in MutationOps /\ last.id \notin Ids(last.before))
  => /\ data = last.before
     /\ Raised(last.notes) \cap Errors = {}
     /\ Raised(last.notes) \cap Alerts =
          IF last.op = "addChild" THEN {OnlyFromRoot} ELSE {}

AbsentIdAddChildSeen ==
  /\ last.op = "addChild"
  /\ last.id \notin Ids(last.before)
  /\ Size(last.before) > 1
  /\ data = last.before
  /\ last.notes = <<OnlyFromRoot>>

-----------------------------------------------------------------------------
(* Rejected requests *)

\* the request is one of the four invalid structural operations
DeletesRoot == last.op = "delete" /\ last.id = last.before.id

DeletesConnected ==
  /\ last.op = "delete"
  /\ last.id # last.before.id
  /\ calculateDegree(last.before, last.id) > 1

AddsSecondSpouse ==
  /\ last.op = "addSpouse"
  /\ UniqueIds(last.before)
  /\ last.id \in Ids(last.before)
  /\ NodeOf(last.before, last.id).spouse # <<>>

AddsChildBelowRoot == last.op = "addChild" /\ last.id # last.before.id

\* C12: each of the four invalid structural operations (deleting the root,
\* deleting a member whose degree is above 1, adding a spouse to a member
\* that has one, adding a descendant to an id other than the root's) raises
\* a notice to the user when it is rejected.
InvalidOpRaisesNotice ==
  (DeletesRoot \/ DeletesConnected \/ AddsSecondSpouse \/ AddsChildBelowRoot)
  => /\ data = last.before
     /\ Raised(last.notes) \cap Alerts # {}

-----------------------------------------------------------------------------
(* The delete control of the editor *)

\* C13: for the member the editor is open on, a delete request changes the
\* tree exactly when canDelete holds, that is when the member is not the
\* root and its degree is 1.
DeleteChangesIffCanDelete ==
  [][(/\ editingMember # <<>>
      /\ calls' = calls + 1
      /\ last'.op = "delete"
      /\ last'.id = editingMember[1].id)
     => ((data' # data) <=> canDelete)]_vars

DeleteFromEditorSeen ==
  /\ last.op = "delete"
  /\ last.editor # <<>>
  /\ last.id = last.editor[1].id
  /\ last.id # last.before.id
  /\ calculateDegree(last.before, last.id) = 1
  /\ data # last.before
  /\ editingMember = <<>>

-----------------------------------------------------------------------------
(* Ids *)

\* every member of the tree before the request is where it was, under the
\* id it had
IdsKeptInPlace ==
  \A p \in Paths(last.before) :
    /\ p \in Paths(data)
    /\ NodeAt(data, p).id = NodeAt(last.before, p).id

\* no two added ancestors share the time and the random part of their ids
RandomPartsDiffer ==
  \A p, q \in Paths(data) :
    (NodeAt(data, p).id.pfx = "new" /\ NodeAt(data, p).id = NodeAt(data, q).id)
    => p = q

\* C14: in every state reached from the seed tree by add ancestor, add
\* spouse, add descendant, save and delete, the ids of all members, spouses
\* included, are pairwise distinct, and no request changes the id of a
\* member that stays in the tree. (Stated for the runs in which Math.random
\* never repeats a value within one millisecond.)
IdsStayUnique ==
  /\ RandomPartsDiffer => UniqueIds(data)
  /\ last.op \in {"save", "addParent", "addSpouse"} => IdsKeptInPlace
  /\ (last.op = "addChild" /\ data # last.before)
       => IdsOf(data.parents) = <<last.before.id>>
          /\ Ids(data.parents[1]) = Ids(last.before)
  /\ last.op = "delete" => Ids(data) \subseteq Ids(last.before)

-----------------------------------------------------------------------------
(* The expansion set *)

\* the ids of the spouses in the tree
SpouseIds(tree) ==
  {NodeAt(tree, p).id : p \in {q \in Paths(tree) : q # <<>> /\ q[Len(q)] = 0}}

\* C15: the expansion set is empty at first; a toggle flips the membership
\* of the id of the spouse that was clicked and of no other id, so two
\* toggles of one id restore the set, and it leaves the tree as it was; no
\* other event (save, delete, add, editor, camera, resize) changes the set.
ExpansionSetRule ==
  /\ expandedSpouseIds = {}
  /\ [][IF last'.op = "toggle"
        THEN /\ last'.id \in SpouseIds(data)
             /\ expandedSpouseIds' =
                  (expandedSpouseIds \cup {last'.id})
                    \ (expandedSpouseIds \cap {last'.id})
             /\ data' = data
        ELSE expandedSpouseIds' = expandedSpouseIds]_vars

ToggledTwiceSeen ==
  /\ last.op = "toggle"
  /\ calls = 2
  /\ last.id \in SpouseIds(data)
  /\ expandedSpouseIds = {}

-----------------------------------------------------------------------------
(* Deleted spouses and the expansion set *)

\* The behaviours of Next from the state in which the spouse of p2, added in
\* the current millisecond, has been clicked and is expanded.
InitReuse ==
  /\ Mounted(SeedWithSpouse, {SpouseId(0)})
  /\ editingMember = <<>>
  /\ now = 0

SpecReuse == InitReuse /\ [][Next]_vars

\* the ids of the members the last event created
Created == Ids(data) \ Ids(last.before)

\* C16: after a spouse whose id is in the expansion set has been deleted, a
\* member created later under the same id is not shown expanded unless it is
\* toggled again. A toggle needs a drawn spouse, so an id in the set that
\* the tree does not hold is the id of a deleted spouse: the members an
\* event creates are not in the expansion set.
DeletedIdNotResurrected ==
  last.op \in {"addParent", "addSpouse", "addChild"}
  => Created \cap expandedSpouseIds = {}

-----------------------------------------------------------------------------
(* The camera *)

\* C17: the first render sets the default transform (translate(width / 2,
\* height - 150), scale 0.85). After it, in any interleaving of camera
\* gestures, edits, toggles and resizes, a gesture stores the transform it
\* sets, no other event changes the stored transform, and every redraw
\* leaves the camera at the transform stored before it: the one captured by
\* the most recent camera interaction.
CameraKept ==
  /\ transform = [x |-> dimensions.width \div 2,
                  y |-> dimensions.height - 150, k |-> 85]
  /\ [][IF last'.op = "zoom"
        THEN transform' \in Gestures /\ currentZoomState' = transform'
        ELSE /\ currentZoomState' = currentZoomState
             /\ transform' = IF last'.redrawn THEN currentZoomState
                             ELSE transform]_vars

ResizeAfterZoomSeen ==
  /\ last.op = "resize"
  /\ last.redrawn
  /\ transform \in Gestures
  /\ transform # initialTransform(dimensions.width, dimensions.height)
  /\ dimensions # InitialWindow

-----------------------------------------------------------------------------
(* What a redraw leaves in the SVG *)

\* the elements drawn for the position p
DrawnAt(p) == {e \in drawn : e.at = p}

\* C18: after every pass of the drawing effect nothing of the earlier passes
\* is left: the elements that exist are the ones this pass drew, and each of
\* them targets the id of the member at its position in the tree the pass
\* was run on.
NoStaleElements ==
  last.redrawn
  => /\ \A e \in drawn :
          /\ e.at \in Paths(data)
          /\ NodeAt(data, e.at).id = e.id
          /\ e.id \in Ids(data)
     /\ drawn = renderTreeRecursive(data, expandedSpouseIds,
                                    descendants(data, <<>>))

StaleElementsRemovedSeen ==
  /\ last.op \in {"delete", "toggle"}
  /\ last.redrawn
  /\ \E e \in redraw({}, last.before,
                     IF last.op = "toggle"
                     THEN toggleSpouse(expandedSpouseIds, last.id)
                     ELSE expandedSpouseIds) :
       /\ e \notin drawn
       /\ e.kind = "ancestorBtn"
       /\ last.op = "delete" => e.id \notin Ids(data)

\* C19: in each redraw, for every member drawn as a node of a hierarchy that
\* has a spouse, the members of the spouse's own hierarchy (its ancestors)
\* are drawn exactly when the spouse's id is in the expansion set, and the
\* spouse itself is drawn once, as the portrait beside the member with its
\* edit control, and not as the root of its hierarchy with a member's
\* controls.
SpouseSubtreeIffExpanded ==
  last.redrawn
  => \A e \in drawn :
       (e.kind = "member" /\ NodeAt(data, e.at).spouse # <<>>)
       => LET sp == Append(e.at, 0)
              spouse == NodeAt(data, sp)
          IN  /\ \A q \in descendants(data, sp) \ {sp} :
                   /\ (DrawnAt(q) # {}) <=> (spouse.id \in expandedSpouseIds)
                   /\ (Element("member", NodeAt(data, q), q) \in drawn)
                        <=> (spouse.id \in expandedSpouseIds)
              /\ {d.kind : d \in DrawnAt(sp)} = {"spouse", "sEditBtn"}
              /\ Cardinality({d \in DrawnAt(sp) : d.kind = "spouse"}) = 1
              /\ DrawnAt(sp) = {Element("spouse", spouse, sp),
                                Element("sEditBtn", spouse, sp)}

ExpandedSpouseSubtreeSeen ==
  /\ last.op = "toggle"
  /\ last.redrawn
  /\ \E e \in drawn :
       /\ e.kind = "spouse"
       /\ e.id = last.id
       /\ e.id \in expandedSpouseIds
       /\ NodeAt(data, e.at).parents # <<>>
       /\ DrawnAt(Append(e.at, 1)) # {}
       /\ DrawnAt(e.at) = {e, Element("sEditBtn", NodeAt(data, e.at), e.at)}

-----------------------------------------------------------------------------
(* Clicks on the controls *)

\* C20: a click on an add ancestor, add descendant, add spouse or spouse edit
\* control runs the callback of that control and nothing else: the click
\* listener of the member's own group (which opens the editor on the member)
\* and the one of the spouse portrait (which toggles the spouse) do not run.
ControlClickRunsOwnCallback ==
  /\ last.target = "ancestorBtn"
       => last.invoked = <<"onAddParent">> /\ editingMember = <<>>
  /\ last.target = "descendantBtn"
       => last.invoked = <<"onAddChild">> /\ editingMember = <<>>
  /\ last.target = "sideBtn"
       => last.invoked = <<"onAddSpouse">> /\ editingMember = <<>>
  /\ last.target = "sEditBtn"
       => /\ last.invoked = <<"onEdit">>
          /\ editingMember # <<>>
          /\ editingMember[1].id = last.id
          /\ last.id \in SpouseIds(data)
          /\ data = last.before

SpouseEditClickSeen ==
  /\ last.target = "sEditBtn"
  /\ last.op = "edit"
  /\ editingMember # <<>>
  /\ editingMember[1].relationship = "Spouse"
  /\ \E e \in drawn : e.kind = "ancestorBtn"

-----------------------------------------------------------------------------
(* LegacyTree: getRandomOffset *)

\* String.charCodeAt for the characters ids and seed strings are made of
charCodeAt ==
  "-" :> 45 @@
  "0" :> 48 @@ "1" :> 49 @@ "2" :> 50 @@ "3" :> 51 @@ "4" :> 52 @@
  "5" :> 53 @@ "6" :> 54 @@ "7" :> 55 @@ "8" :> 56 @@ "9" :> 57 @@
  "a" :> 97 @@ "b" :> 98 @@ "c" :> 99 @@ "d" :> 100 @@ "e" :> 101 @@
  "f" :> 102 @@ "g" :> 103 @@ "h" :> 104 @@ "i" :> 105 @@ "j" :> 106 @@
  "k" :> 107 @@ "l" :> 108 @@ "m" :> 109 @@ "n" :> 110 @@ "o" :> 111 @@
  "p" :> 112 @@ "q" :> 113 @@ "r" :> 114 @@ "s" :> 115 @@ "t" :> 116 @@
  "u" :> 117 @@ "v" :> 118 @@ "w" :> 119 @@ "x" :> 120 @@ "y" :> 121 @@
  "z" :> 122

\* the characters of the literal an id starts with
Literal ==
  "root" :> <<"r", "o", "o", "t">> @@
  "p1" :> <<"p", "1">> @@
  "gp1" :> <<"g", "p", "1">> @@
  "p2" :> <<"p", "2">> @@
  "nobody" :> <<"n", "o", "b", "o", "d", "y">> @@
  "new" :> <<"n", "e", "w">> @@
  "spouse" :> <<"s", "p", "o", "u", "s", "e">> @@
  "child" :> <<"c", "h", "i", "l", "d">>

\* the string an id is: the literal of a seed member, or what the template
\* literals `new-${t}-${r}`, `spouse-${t}` and `child-${t}` build. The r-th
\* value of Math.random().toString(36).substr(2, 9) is written as the
\* digits of r.
idString(id) ==
  IF id.pfx = "new"
  THEN Literal[id.pfx] \o <<"-">> \o NatToString(id.t)
         \o <<"-">> \o NatToString(id.r)
  ELSE IF id.pfx \in {"spouse", "child"}
  THEN Literal[id.pfx] \o <<"-">> \o NatToString(id.t)
  ELSE Literal[id.pfx]

\* A 32-bit word is the record of its upper and lower 16 bits, so that no
\* intermediate result leaves the range of the integers of the checker.
Word(hi, lo) == [hi |-> hi, lo |-> lo]

\* 0x811c9dc5
OffsetBasis == Word(33052, 40389)

\* 0x01000193
Prime == Word(256, 403)

\* the k-th bit of a
Bit(a, k) == (a \div 2^k) % 2

\* a ^ b for a 16-bit a and a character code b below 2^8
xor(a, b) ==
  a - (a % 256)
    + ((Bit(a, 0) + Bit(b, 0)) % 2)
    + ((Bit(a, 1) + Bit(b, 1)) % 2) * 2
    + ((Bit(a, 2) + Bit(b, 2)) % 2) * 4
    + ((Bit(a, 3) + Bit(b, 3)) % 2) * 8
    + ((Bit(a, 4) + Bit(b, 4)) % 2) * 16
    + ((Bit(a, 5) + Bit(b, 5)) % 2) * 32
    + ((Bit(a, 6) + Bit(b, 6)) % 2) * 64
    + ((Bit(a, 7) + Bit(b, 7)) % 2) * 128

\* Math.imul(a, b): the low 32 bits of the product
imul(a, b) ==
  LET low == a.lo * b.lo
  IN  Word((a.hi * b.lo + a.lo * b.hi + (low \div 65536)) % 65536,
           low % 65536)

\* the 32-bit words
Words == [hi : 0..65535, lo : 0..65535]

\* the loop of getRandomOffset over the characters of str from the i-th on:
\* h stays a 32-bit word
RECURSIVE hash(_, _, _)
hash(h, str, i) ==
  IF i > Len(str) THEN h
  ELSE LET word == imul(Word(h.hi, xor(h.lo, charCodeAt[str[i]])), Prime)
       IN  CASE word \in Words -> hash(word, str, i + 1)

\* A number v / 2^31 is the record of the integer parts hi, lo with
\* v = hi * 2^16 + lo and 0 <= lo < 2^16.
Fraction(hi, lo) == [hi |-> hi, lo |-> lo]

\* getRandomOffset without `h >>>= 0`: h is the signed result of Math.imul
getRandomOffsetSigned(id, seedStr) ==
  LET h == hash(OffsetBasis, idString(id) \o seedStr, 1)
      signed == IF h.hi >= 32768 THEN h.hi - 65536 ELSE h.hi
  IN  Fraction(signed - 32768, h.lo)

\* h >>>= 0 reads the word as unsigned; (h / 2^32 - 0.5) * 2 is
\* (h - 2^31) / 2^31
getRandomOffset(id, seedStr) ==
  LET h == hash(OffsetBasis, idString(id) \o seedStr, 1)
  IN  Fraction(h.hi - 32768, h.lo)

\* Lengths are whole thousandths of a pixel: Px(n) is n pixels.
Px(n) == n * 1000

\* f * n pixels for a fraction f, rounded down to a thousandth of a pixel
Times(f, n) == (Px(n) * f.hi + ((Px(n) * f.lo) \div 65536)) \div 32768

-----------------------------------------------------------------------------
(* LegacyTree: the layout of one hierarchy *)

\* A hierarchy node is the position in the tree of the member it was made
\* for; its children are the positions of the member's parents.
parent(p) == SubSeq(p, 1, Len(p) - 1)

hasSpouse(tree, p) == NodeAt(tree, p).spouse # <<>>

\* the separation of the main layout without the spacing for spouses
separationMainBare(tree, width, a, b) ==
  LET extraSpace == width[a] + width[b]
      sep == IF parent(a) = parent(b) THEN Px(297) ELSE Px(351)
  IN  sep + extraSpace

\* The separation of the main layout. d3.tree multiplies every distance it
\* derives from separations by the node width of 270 pixels, so a separation
\* is written as the length it stands for: 1.1 slots are 297 pixels, 1.3
\* are 351, 0.8 are 216, and spouseTreeWidth / 270 slots are spouseTreeWidth.
\* width holds spouseTreeWidth || 0 of every node of the hierarchy.
separationMain(tree, width, a, b) ==
  LET extraSpace == width[a] + width[b]
      sep == IF parent(a) = parent(b) THEN Px(297) ELSE Px(351)
  IN  sep + (IF hasSpouse(tree, a) THEN Px(216) ELSE 0)
          + (IF hasSpouse(tree, b) THEN Px(216) ELSE 0)
          + extraSpace

\* the separation of a spouse sub-tree layout
separationSpouse(tree, width, a, b) ==
  LET extraSpace == width[a] + width[b]
      sep == IF parent(a) = parent(b) THEN Px(297) ELSE Px(351)
  IN  sep + (IF hasSpouse(tree, a) THEN Px(216) ELSE 0)
          + (IF hasSpouse(tree, b) THEN Px(216) ELSE 0)
          + extraSpace

separation(tree, width, isMainTree, a, b) ==
  IF isMainTree THEN separationMain(tree, width, a, b)
  ELSE separationSpouse(tree, width, a, b)

\* the order of the nodes of one depth, left to right
Before(p, q) ==
  \E i \in 1..Len(p) : p[i] < q[i] /\ \A j \in 1..(i - 1) : p[j] = q[j]

Leftmost(nodes) == CHOOSE n \in nodes : \A m \in nodes \ {n} : Before(n, m)

Rightmost(nodes) == CHOOSE n \in nodes : \A m \in nodes \ {n} : Before(m, n)

Max(S) == CHOOSE m \in S : \A n \in S : n <= m

Min(S) == CHOOSE m \in S : \A n \in S : m <= n

\* the nodes of a laid out subtree that are d levels below the children of v
Level(rel, v, d) == {n \in DOMAIN rel : Len(n) = Len(v) + 1 + d}

\* moveSubtree(wm, wp, shift) on the children of one node: z the
\* preliminary positions, s and c the shifts and changes executeShifts
\* spreads over the children between wm and wp
moveSubtree(st, wm, wp, shift) ==
  LET change == shift \div (wp - wm)
  IN  [z |-> [st.z EXCEPT ![wp] = @ + shift],
       s |-> [st.s EXCEPT ![wp] = @ + shift],
       c |-> [st.c EXCEPT ![wp] = @ - change, ![wm] = @ + change]]

\* apportion(v, w, ancestor) for the i-th child of v, from level d down: the
\* right contour of the children before it (vim, in the subtree of child k)
\* against the left contour of its own subtree (vip). rels[k] holds the
\* positions of the subtree of child k relative to that child.
RECURSIVE apportion(_, _, _, _, _, _, _, _)
apportion(tree, width, isMainTree, v, rels, st, i, d) ==
  LET inner == {k \in 1..(i - 1) : Level(rels[k], v, d) # {}}
      outer == Level(rels[i], v, d)
  IN  IF inner = {} \/ outer = {} THEN st
      ELSE
        LET k == Max(inner)
            vim == Rightmost(Level(rels[k], v, d))
            vip == Leftmost(outer)
            shift == st.z[k] + rels[k][vim] - st.z[i] - rels[i][vip]
                       + separation(tree, width, isMainTree, vim, vip)
            moved == IF shift > 0 THEN moveSubtree(st, k, i, shift) ELSE st
        IN  apportion(tree, width, isMainTree, v, rels, moved, i, d + 1)

\* firstWalk on the children of v from the i-th on: a child is put one
\* separation right of its left sibling, then moved right until its subtree
\* is clear of the subtrees before it
RECURSIVE firstWalk(_, _, _, _, _, _, _)
firstWalk(tree, width, isMainTree, v, rels, st, i) ==
  IF i > Len(st.z) THEN st
  ELSE
    LET put == IF i = 1 THEN st
               ELSE [st EXCEPT !.z[i] =
                       st.z[i - 1] + separation(tree, width, isMainTree,
                                                Append(v, i),
                                                Append(v, i - 1))]
    IN  firstWalk(tree, width, isMainTree, v, rels,
                  apportion(tree, width, isMainTree, v, rels, put, i, 1),
                  i + 1)

\* executeShifts(v), from the k-th child down to the first
RECURSIVE executeShifts(_, _, _, _)
executeShifts(st, k, shift, change) ==
  IF k = 0 THEN st.z
  ELSE
    LET moved == [st EXCEPT !.z[k] = @ + shift]
        change1 == change + st.c[k]
    IN  executeShifts(moved, k - 1, shift + st.s[k] + change1, change1)

\* d3.tree with nodeSize([270, 300]) on the hierarchy below v: the x of
\* every node relative to v, which is put midway between its first and its
\* last child
RECURSIVE layoutX(_, _, _, _)
layoutX(tree, width, isMainTree, v) ==
  LET n == Len(NodeAt(tree, v).parents)
  IN  IF n = 0 THEN [m \in {v} |-> 0]
      ELSE
        LET rels == [i \in 1..n |->
                       layoutX(tree, width, isMainTree, Append(v, i))]
            zero == [i \in 1..n |-> 0]
            st == firstWalk(tree, width, isMainTree, v, rels,
                            [z |-> zero, s |-> zero, c |-> zero], 1)
            z == executeShifts(st, n, 0, 0)
            midpoint == (z[1] + z[n]) \div 2
        IN  [m \in descendants(tree, v) |->
               IF m = v THEN 0
               ELSE LET i == m[Len(v) + 1]
                    IN  z[i] - midpoint + rels[i][m]]

\* the layout of the hierarchy with the given root: x from d3.tree, y the
\* depth times the node height
treeLayout(tree, width, isMainTree, root) ==
  LET x == layoutX(tree, width, isMainTree, root)
  IN  [n \in descendants(tree, root) |->
         [x |-> x[n], y |-> Px(300) * (Len(n) - Len(root))]]

\* perturbNodes on the nodes of the hierarchy with the given root
perturbNodes(tree, nodes, root) ==
  [n \in DOMAIN nodes |->
     LET magnitude == IF Len(n) = Len(root) THEN 0 ELSE 1
         id == NodeAt(tree, n).id
         ox == Times(getRandomOffset(id, <<"x">>), 20) * magnitude
         oy == Times(getRandomOffset(id, <<"y">>), 15) * magnitude
     IN  [x |-> nodes[n].x + ox, y |-> nodes[n].y + oy]]

\* calculateSpouseTreeLayout of the spouse at position sp. The test
\* minX === Infinity never holds: the root is among the nodes visited.
RECURSIVE calculateSpouseTreeLayout(_, _, _)
calculateSpouseTreeLayout(tree, expanded, sp) ==
  LET width == [n \in descendants(tree, sp) |->
                  IF hasSpouse(tree, n)
                       /\ NodeAt(tree, n).spouse[1].id \in expanded
                  THEN calculateSpouseTreeLayout(
                         tree, expanded, Append(n, 0)).width
                  ELSE 0]
      layoutRoot == perturbNodes(tree,
                                 treeLayout(tree, width, FALSE, sp), sp)
      minX == Min({layoutRoot[n].x : n \in DOMAIN layoutRoot})
      maxX == Max({layoutRoot[n].x : n \in DOMAIN layoutRoot}
                    \cup {layoutRoot[n].x + Px(220) + width[n] :
                            n \in {m \in DOMAIN layoutRoot : width[m] # 0}}
                    \cup {layoutRoot[n].x + Px(220) :
                            n \in {m \in DOMAIN layoutRoot :
                                     width[m] = 0 /\ hasSpouse(tree, m)}})
  IN  [root |-> layoutRoot, width |-> maxX - minX, spouseTreeWidth |-> width]

\* the layout of the main tree: the widths of the expanded spouse trees,
\* d3.tree, then perturbNodes
mainTreeLayout(tree, expanded) ==
  LET width == [n \in descendants(tree, <<>>) |->
                  IF hasSpouse(tree, n)
                       /\ NodeAt(tree, n).spouse[1].id \in expanded
                  THEN calculateSpouseTreeLayout(
                         tree, expanded, Append(n, 0)).width
                  ELSE 0]
  IN  [root |-> perturbNodes(tree,
                             treeLayout(tree, width, TRUE, <<>>), <<>>),
       spouseTreeWidth |-> width]

-----------------------------------------------------------------------------
(* LegacyTree: the shapes one pass of the effect draws *)

Point(x, y) == [x |-> x, y |-> y]

\* hierarchy.links() for the nodes of a hierarchy
links(nodes) ==
  {[source |-> parent(m), target |-> m] :
     m \in {n \in nodes : n # <<>> /\ parent(n) \in nodes}}

\* generateWavyPath that always draws from the source to the target
generateWavyPathForward(tree, layout, d, originX, originY, isMainTree) ==
  LET sx == originX + layout[d.source].x
      sy == originY + (IF isMainTree THEN -layout[d.source].y
                       ELSE layout[d.source].y)
      tx == originX + layout[d.target].x
      ty == originY + (IF isMainTree THEN -layout[d.target].y
                       ELSE layout[d.target].y)
      seed == idString(NodeAt(tree, d.source).id)
      midY == (sy + ty) \div 2
      controlOffset ==
        Times(getRandomOffset(NodeAt(tree, d.target).id,
                              seed \o <<"c", "u", "r", "v", "e">>), 30)
  IN  [M |-> Point(sx, sy),
       C |-> <<Point(sx, midY + controlOffset),
               Point(tx, midY - controlOffset)>>,
       end |-> Point(tx, ty)]

\* the path of the link d: the point it moves to, the control points of the
\* curve, the point it ends at. The seed of the control offset is the id of
\* the target followed by the id of the source.
generateWavyPath(tree, layout, d, originX, originY, isMainTree) ==
  LET sx == originX + layout[d.source].x
      sy == originY + (IF isMainTree THEN -layout[d.source].y
                       ELSE layout[d.source].y)
      tx == originX + layout[d.target].x
      ty == originY + (IF isMainTree THEN -layout[d.target].y
                       ELSE layout[d.target].y)
      seed == idString(NodeAt(tree, d.source).id)
      midY == (sy + ty) \div 2
      controlOffset ==
        Times(getRandomOffset(NodeAt(tree, d.target).id,
                              seed \o <<"c", "u", "r", "v", "e">>), 30)
      isTargetLeft == tx < sx
  IN  IF isTargetLeft
      THEN [M |-> Point(tx, ty),
            C |-> <<Point(tx, midY - controlOffset),
                    Point(sx, midY + controlOffset)>>,
            end |-> Point(sx, sy)]
      ELSE [M |-> Point(sx, sy),
            C |-> <<Point(sx, midY + controlOffset),
                    Point(tx, midY - controlOffset)>>,
            end |-> Point(tx, ty)]

\* the position of the spouse portrait relative to its member
spouseOffset(spouse, direction) ==
  Point(Px(220) * direction
          + Times(getRandomOffset(spouse.id, <<"s", "x">>), 10),
        Times(getRandomOffset(spouse.id, <<"s", "y">>), 10))

\* the connection of a member to its spouse, in the coordinates of the group
\* of the member
spouseConnection(spouse, direction) ==
  LET offset == spouseOffset(spouse, direction)
      startX == IF direction = -1 THEN Px(-50) ELSE Px(50)
      endX == offset.x + (IF direction = -1 THEN Px(50) ELSE Px(-50))
      curveY == Px(30) + Times(getRandomOffset(spouse.id, <<"s", "c">>), 15)
      midX == (startX + endX) \div 2
  IN  IF direction = -1
      THEN [M |-> Point(endX, offset.y), C |-> <<Point(midX, curveY)>>,
            end |-> Point(startX, 0)]
      ELSE [M |-> Point(startX, 0), C |-> <<Point(midX, curveY)>>,
            end |-> Point(endX, offset.y)]

Translate(d, by) ==
  [M |-> Point(d.M.x + by.x, d.M.y + by.y),
   C |-> [i \in 1..Len(d.C) |-> Point(d.C[i].x + by.x, d.C[i].y + by.y)],
   end |-> Point(d.end.x + by.x, d.end.y + by.y)]

\* The shapes renderTreeRecursive appends for the given nodes and links of a
\* laid out hierarchy, in the coordinates of the zoom group: the link paths
\* with the positions of their logical source and target, the node groups,
\* and for a member with a spouse the connection, the portrait and, when
\* the spouse is expanded, the shapes of the spouse's sub-tree.
RECURSIVE renderShapes(_, _, _, _, _, _, _, _)
renderShapes(tree, expanded, layout, nodes, originX, originY, parentDirection, isMainTree) ==
  LET flip(y) == IF isMainTree THEN -y ELSE y
      at(n) == Point(originX + layout[n].x, originY + flip(layout[n].y))
  IN
  {[kind |-> "link", at |-> d.target,
    source |-> at(d.source), target |-> at(d.target),
    d |-> generateWavyPath(tree, layout, d, originX, originY, isMainTree)] :
     d \in links(DOMAIN layout)}
  \cup {[kind |-> "node", at |-> n, source |-> at(n), target |-> at(n),
         d |-> <<>>] : n \in nodes}
  \cup UNION {
    IF ~hasSpouse(tree, n) THEN {}
    ELSE
      LET spouse == NodeAt(tree, n).spouse[1]
          sp == Append(n, 0)
          direction == IF isMainTree
                       THEN (IF layout[n].x < 0 THEN -1 ELSE 1)
                       ELSE parentDirection
          offset == spouseOffset(spouse, direction)
          spouseVisual == Point(at(n).x + offset.x, at(n).y + offset.y)
          subRoot == calculateSpouseTreeLayout(tree, expanded, sp).root
      IN  {[kind |-> "spouseLink", at |-> sp,
            source |-> at(n), target |-> spouseVisual,
            d |-> Translate(spouseConnection(spouse, direction), at(n))],
           [kind |-> "spouse", at |-> sp,
            source |-> spouseVisual, target |-> spouseVisual, d |-> <<>>]}
          \cup (IF spouse.id \in expanded
                THEN renderShapes(tree, expanded, subRoot,
                                  DOMAIN subRoot \ {sp},
                                  spouseVisual.x, spouseVisual.y,
                                  direction, FALSE)
                ELSE {})
    : n \in nodes}

\* what the effect draws for a tree and a set of expanded spouses
shapes(tree, expanded) ==
  LET rootHierarchy == mainTreeLayout(tree, expanded).root
  IN  renderShapes(tree, expanded, rootHierarchy, DOMAIN rootHierarchy,
                   0, 0, 1, TRUE)

\* the effect with the tree centred by the coordinates of its shapes
drawingEffectCentred(tree, size, expanded, stored, t) ==
  LET by == Point(Px(size.width \div 2), Px(size.height - 150))
      moved(p) == Point(p.x + by.x, p.y + by.y)
  IN  [transform |-> IF stored # Null THEN stored ELSE [x |-> 0, y |-> 0,
                                                        k |-> 85],
       shapes |-> {[s EXCEPT !.source = moved(@), !.target = moved(@)] :
                     s \in shapes(tree, expanded)}]

\* One pass of the drawing effect, as a function of everything its closure
\* can read: the tree, the size of the window, the expanded spouses, the
\* stored transform and the clock. It gives the transform of the zoom group
\* and the shapes in it.
drawingEffect(tree, size, expanded, stored, t) ==
  [transform |-> applyStoredZoom(stored, size),
   shapes |-> shapes(tree, expanded)]

-----------------------------------------------------------------------------
(* The layout of the trees grown from the seed tree *)

\* the trees the handlers build from the seed tree by adding up to n
\* members, one per millisecond
RECURSIVE SeedGrown(_)
SeedGrown(n) ==
  IF n = 0 THEN {INITIAL_DATA}
  ELSE LET smaller == SeedGrown(n - 1)
       IN  smaller \cup
           UNION {GrowOnce(tree) :
                    tree \in {s \in smaller :
                                Size(s) = Size(INITIAL_DATA) + n - 1}}

\* One event that draws the tree again, or moves the camera, on every tree
\* grown from the seed tree by up to MaxAdded members, drawn with any of its
\* spouses expanded, the editor closed.
InitLayout ==
  /\ \E tree \in SeedGrown(MaxAdded) :
       \E expanded \in SUBSET {NodeAt(tree, p).id :
                                 p \in {q \in Paths(tree) :
                                          q # <<>> /\ q[Len(q)] = 0}} :
         Mounted(tree, expanded)
  /\ editingMember = <<>>
  /\ now = Size(data) - 1

NextLayout ==
  \/ calls = 0 /\ ToggleSpouse
  \/ calls = 0 /\ Resize
  \/ calls = 0 /\ Zoom

SpecLayout == InitLayout /\ [][NextLayout]_vars

\* the hierarchies one pass lays out: the main tree and the tree of every
\* expanded spouse, each with its root, the positions d3.tree gives its
\* nodes, the positions after perturbNodes and the spouse tree widths
Hierarchies(tree, expanded) ==
  {LET width == mainTreeLayout(tree, expanded).spouseTreeWidth
   IN  [root |-> <<>>, isMainTree |-> TRUE, width |-> width,
        tidy |-> treeLayout(tree, width, TRUE, <<>>),
        nodes |-> mainTreeLayout(tree, expanded).root]}
  \cup
  {LET l == calculateSpouseTreeLayout(tree, expanded, sp)
   IN  [root |-> sp, isMainTree |-> FALSE, width |-> l.spouseTreeWidth,
        tidy |-> treeLayout(tree, l.spouseTreeWidth, FALSE, sp),
        nodes |-> l.root] :
     sp \in {q \in Paths(tree) : /\ q # <<>>
                                 /\ q[Len(q)] = 0
                                 /\ NodeAt(tree, q).id \in expanded}}

-----------------------------------------------------------------------------
(* C21 *)

\* an expanded spouse with a tree of its own is drawn
SpouseTreeDrawn ==
  \E h \in Hierarchies(data, expandedSpouseIds) :
    ~h.isMainTree /\ DOMAIN h.nodes # {h.root}

-----------------------------------------------------------------------------
(* C24 *)

\* what perturbNodes added to the position d3.tree gave node n of hierarchy h
Perturbation(h, n) ==
  Point(h.nodes[n].x - h.tidy[n].x, h.nodes[n].y - h.tidy[n].y)

\* -1 <= f <= 1 for a fraction f
WithinOne(f) ==
  /\ f.lo \in 0..65535
  /\ f.hi >= -32768
  /\ f.hi < 32768 \/ (f.hi = 32768 /\ f.lo = 0)

Abs(n) == IF n < 0 THEN -n ELSE n

\* C24: in every hierarchy that is laid out (the main tree and the tree of
\* every expanded spouse) the perturbation of a node is zero on both axes at
\* depth 0, and else the offset getRandomOffset gives for (id, 'x') times 20
\* and for (id, 'y') times 15, where the offset is the 32-bit hash scaled
\* into [-1, 1]: at most 20 pixels horizontally and 15 vertically.
PerturbationIsBoundedHashOfId ==
  \A h \in Hierarchies(data, expandedSpouseIds) :
    \A n \in DOMAIN h.nodes :
      LET id == NodeAt(data, n).id
          fx == getRandomOffset(id, <<"x">>)
          fy == getRandomOffset(id, <<"y">>)
          p == Perturbation(h, n)
      IN  /\ WithinOne(fx)
          /\ WithinOne(fy)
          /\ n = h.root => p = Point(0, 0)
          /\ n # h.root => p = Point(Times(fx, 20), Times(fy, 15))
          /\ Abs(p.x) <= Px(20)
          /\ Abs(p.y) <= Px(15)

\* a pass has moved a node of the main tree and a node of the tree of an
\* expanded spouse off the position d3.tree gave it, the roots left in place
PerturbedSpouseTreeSeen ==
  /\ last.redrawn
  /\ last.op = "toggle"
  /\ \E h \in Hierarchies(data, expandedSpouseIds) :
       /\ ~h.isMainTree
       /\ Perturbation(h, h.root) = Point(0, 0)
       /\ \E n \in DOMAIN h.nodes :
            Perturbation(h, n).x # 0 /\ Perturbation(h, n).y # 0
  /\ \E h \in Hierarchies(data, expandedSpouseIds) :
       /\ h.isMainTree
       /\ \E n \in DOMAIN h.nodes :
            Perturbation(h, n).x # 0 /\ Perturbation(h, n).y # 0

-----------------------------------------------------------------------------
(* C25 *)

\* the screen position of x in the zoom group, in thousandths of a pixel:
\* the transform translates by x and scales by k hundredths
ScreenX(x) == Px(transform.x) + (transform.k * x) \div 100

Curves == {s \in shapes(data, expandedSpouseIds) :
             s.kind \in {"link", "spouseLink"}}

\* C25: every curve that is drawn, the link of a parent and the connection
\* of a spouse, starts at its end with the smaller screen x and ends at
\* its end with the larger screen x: a link runs between the positions of
\* its source and its target, a spouse connection between the points 50
\* pixels inside of the member and of the spouse, from the left one to the
\* right one whichever of the two is the source.
CurvesDrawnLeftToRight ==
  \A s \in Curves :
    LET left == IF s.source.x <= s.target.x THEN s.source ELSE s.target
        right == IF s.source.x <= s.target.x THEN s.target ELSE s.source
    IN  /\ ScreenX(s.d.M.x) <= ScreenX(s.d.end.x)
        /\ s.kind = "link" =>
             /\ s.d.M.x = left.x /\ s.d.end.x = right.x
             /\ {s.d.M, s.d.end} = {s.source, s.target}
        /\ s.kind = "spouseLink" =>
             /\ s.d.M.x = left.x + Px(50)
             /\ s.d.end.x = right.x - Px(50)

\* curves whose target is left of their source, a link and a spouse
\* connection, are on the screen after a zoom gesture
RightToLeftCurvesSeen ==
  /\ last.op = "zoom"
  /\ transform \in Gestures
  /\ \E s \in Curves :
       s.kind = "link" /\ s.target.x < s.source.x /\ s.d.M = s.target
  /\ \E s \in Curves :
       s.kind = "link" /\ s.target.x > s.source.x /\ s.d.M = s.source
  /\ \E s \in Curves : s.kind = "spouseLink" /\ s.target.x < s.source.x

-----------------------------------------------------------------------------
(* C22 *)

\* Trees with neighbouring siblings: the seed tree; the seed tree with a
\* parent for p2 and a spouse for gp1, so that the two parents of the root
\* have a parent each; the seed tree with a spouse for p2 who has two
\* parents.
TwoBranches ==
  addSpouseToNode(addParentToNode(INITIAL_DATA, SeedId("p2"), 1, <<1>>),
                  SeedId("gp1"), 2)

SpouseWithParents ==
  addParentToNode(
    addParentToNode(addSpouseToNode(INITIAL_DATA, SeedId("p2"), 1),
                    SpouseId(1), 2, <<1>>),
    SpouseId(1), 3, <<1>>)

\* One event on each of these trees, drawn with their spouses expanded.
InitSiblings ==
  /\ \E tree \in {INITIAL_DATA, TwoBranches, SpouseWithParents} :
       Mounted(tree, {SpouseId(1), SpouseId(2)} \cap Ids(tree))
  /\ editingMember = <<>>
  /\ now = 3

NextSiblings ==
  \/ calls = 0 /\ AddSpouse
  \/ calls = 0 /\ AddParent
  \/ calls = 0 /\ ToggleSpouse
  \/ calls = 0 /\ Resize

SpecSiblings == InitSiblings /\ [][NextSiblings]_vars

\* the separation the layouts are specified to use, as the length it stands
\* for at 270 pixels a slot
SpecifiedSeparation(tree, width, a, b) ==
  (Px(270) * ((IF parent(a) = parent(b) THEN 11 ELSE 13)
              + (IF hasSpouse(tree, a) THEN 8 ELSE 0)
              + (IF hasSpouse(tree, b) THEN 8 ELSE 0))) \div 10
  + width[a] + width[b]

\* every two nodes of one depth of a laid out hierarchy, siblings or not,
\* are given the specified separation, in the main tree and in spouse trees
SeparationAsSpecified(tree, expanded) ==
  \A h \in Hierarchies(tree, expanded) :
    \A a, b \in DOMAIN h.nodes \ {h.root} :
      (a # b /\ Len(a) = Len(b)) =>
        separation(tree, h.width, h.isMainTree, a, b)
          = SpecifiedSeparation(tree, h.width, a, b)

\* the pairs of neighbouring siblings of a hierarchy of which the first has
\* the given id
Neighbours(tree, h, id) ==
  {pq \in (DOMAIN h.nodes \ {h.root}) \X (DOMAIN h.nodes \ {h.root}) :
     /\ NodeAt(tree, pq[1]).id = id
     /\ parent(pq[1]) = parent(pq[2])
     /\ pq[2][Len(pq[2])] - pq[1][Len(pq[1])] \in {-1, 1}}

Gap(h, pq) == Abs(h.nodes[pq[2]].x - h.nodes[pq[1]].x)

\* no sibling of p, p included, has children in the hierarchy
ChildlessSiblings(tree, p) ==
  \A i \in 1..Len(NodeAt(tree, parent(p)).parents) :
    NodeAt(tree, Append(parent(p), i)).parents = <<>>

\* the step is an accepted request to add a spouse
SpouseAdded ==
  /\ last'.op = "addSpouse"
  /\ data' # data
  /\ expandedSpouseIds' = expandedSpouseIds

\* C22 as stated: the separation is the specified one in both layouts, and
\* a member who is given a spouse ends up laterally farther from each
\* neighbouring sibling than it was without the spouse.
SpouseWidensGap ==
  [][/\ SeparationAsSpecified(data', expandedSpouseIds')
     /\ SpouseAdded =>
          \A h \in Hierarchies(data, expandedSpouseIds),
             g \in Hierarchies(data', expandedSpouseIds') :
            h.root = g.root =>
              \A pq \in Neighbours(data, h, last'.id) :
                Gap(g, pq) > Gap(h, pq)]_vars

\* C22: the separation is the specified one in the main layout and in the
\* spouse tree layouts alike; a member who is given a spouse is never
\* laterally closer to a neighbouring sibling than it was without, and is
\* farther by 216 pixels (0.8 slots) when no child of their parent has
\* children of its own in the hierarchy.
SpouseNeverNarrowsGap ==
  /\ SeparationAsSpecified(data, expandedSpouseIds)
  /\ [][/\ SeparationAsSpecified(data', expandedSpouseIds')
        /\ SpouseAdded =>
             \A h \in Hierarchies(data, expandedSpouseIds),
                g \in Hierarchies(data', expandedSpouseIds') :
               h.root = g.root =>
                 \A pq \in Neighbours(data, h, last'.id) :
                   /\ Gap(g, pq) >= Gap(h, pq)
                   /\ ChildlessSiblings(data, pq[1])
                        => Gap(g, pq) = Gap(h, pq) + Px(216)]_vars

\* a member of an expanded spouse tree has been given a spouse while it had
\* a neighbouring sibling
SpouseBesideSiblingSeen ==
  /\ last.op = "addSpouse"
  /\ data # last.before
  /\ \E h \in Hierarchies(data, expandedSpouseIds) :
       ~h.isMainTree /\ Neighbours(data, h, last.id) # {}

-----------------------------------------------------------------------------
(* C23 *)

\* The members of a tree as objects: every member carries the reference of
\* its object, which is the position the object has in the tree handed to
\* deleteNode.  An object built by a spread is a new object: it keeps the
\* position it was copied from and is marked as a copy, so that it is equal
\* to no object of the tree it was built from.
RECURSIVE Objects(_, _)
Objects(tree, path) ==
  [id |-> tree.id, name |-> tree.name, year |-> tree.year,
   imageUrl |-> tree.imageUrl, relationship |-> tree.relationship,
   spouse |-> [i \in 1..Len(tree.spouse) |->
                 Objects(tree.spouse[i], Append(path, 0))],
   parents |-> [i \in 1..Len(tree.parents) |->
                  Objects(tree.parents[i], Append(path, i))],
   ref |-> [of |-> path, copy |-> FALSE]]

\* the tree the objects hold, references left out
RECURSIVE Value(_)
Value(obj) ==
  IF obj = Null THEN Null
  ELSE [id |-> obj.id, name |-> obj.name, year |-> obj.year,
        imageUrl |-> obj.imageUrl, relationship |-> obj.relationship,
        spouse |-> [i \in 1..Len(obj.spouse) |-> Value(obj.spouse[i])],
        parents |-> [i \in 1..Len(obj.parents) |-> Value(obj.parents[i])]]

\* { ...tree, spouse: updatedSpouse, parents: updatedParents }
Spread(tree, updatedSpouse, updatedParents) ==
  [tree EXCEPT !.spouse = updatedSpouse, !.parents = updatedParents,
               !.ref = [of |-> tree.ref.of, copy |-> TRUE]]

\* deleteNode that rebuilds every object it visits
RECURSIVE deleteNodeCopying(_, _)
deleteNodeCopying(tree, targetId) ==
  IF tree.id = targetId THEN Null
  ELSE
    LET results ==
          [i \in 1..Len(tree.parents) |->
             deleteNodeCopying(tree.parents[i], targetId)]
        spouses ==
          [i \in 1..Len(tree.spouse) |->
             deleteNodeCopying(tree.spouse[i], targetId)]
    IN  Spread(tree, SelectSeq(spouses, LAMBDA res : res # Null),
               SelectSeq(results, LAMBDA res : res # Null))

\* deleteNode on objects: !== compares references, the parents array is
\* replaced by the new array only when the loop flagged a change
RECURSIVE deleteNodeObjects(_, _)
deleteNodeObjects(tree, targetId) ==
  IF tree.id = targetId THEN Null
  ELSE
    LET updatedSpouse ==
          IF tree.spouse # <<>>
          THEN LET res == deleteNodeObjects(tree.spouse[1], targetId)
               IN  IF res = Null THEN <<>>
                   ELSE IF res.ref # tree.spouse[1].ref THEN <<res>>
                   ELSE tree.spouse
          ELSE tree.spouse
        results ==
          [i \in 1..Len(tree.parents) |->
             deleteNodeObjects(tree.parents[i], targetId)]
        newParents == SelectSeq(results, LAMBDA res : res # Null)
        changed ==
          \E i \in 1..Len(tree.parents) :
            \/ results[i] = Null
            \/ results[i] # Null /\ results[i].ref # tree.parents[i].ref
        updatedParents == IF changed THEN newParents ELSE tree.parents
        spouseReplaced ==
          \/ Len(updatedSpouse) # Len(tree.spouse)
          \/ updatedSpouse # <<>> /\ updatedSpouse[1].ref # tree.spouse[1].ref
    IN  IF spouseReplaced \/ changed
        THEN Spread(tree, updatedSpouse, updatedParents)
        ELSE tree

\* the objects of the tree that deleteNode(tree, id) gives back as they are:
\* those not removed with a removed member and holding no member with that id
Untouched(tree, id) ==
  {q \in Paths(tree) :
     /\ id \notin Ids(NodeAt(tree, q))
     /\ \A k \in 0..Len(q) : NodeAt(tree, SubSeq(q, 1, k)).id # id}

CopiesOnlyAlongPath(tree, id) ==
  LET T == Objects(tree, <<>>)
      R == deleteNodeObjects(T, id)
  IN  /\ Value(R) = deleteNode(tree, id)
      /\ id \notin Ids(tree) => R = T
      /\ R # Null =>
           /\ \A q \in Untouched(tree, id) :
                \E p \in Paths(R) : NodeAt(R, p) = NodeAt(T, q)
           /\ \A p \in Paths(R) :
                NodeAt(R, p).ref.copy =>
                  id \in Ids(NodeAt(T, NodeAt(R, p).ref.of))

\* C23: deleteNode(T, id) copies only along the path to the removed node.
\* For every tree the handlers build and every id, an id found nowhere in T
\* gives back T itself, the same object; every subtree of T that holds no
\* member with the id and is not removed with one is in the result as the
\* same object; and every object of the result that is a copy was copied
\* from an object that held the removed member.
DeleteCopiesOnlyAlongPath ==
  \A id \in CallIds : CopiesOnlyAlongPath(data, id)

\* a member has been deleted from a tree with a branch beside the path to
\* it, and from a tree where it was the spouse of a member below the root
DeletedBesideBranchSeen ==
  /\ last.op = "delete"
  /\ data # last.before
  /\ \E q \in Untouched(last.before, last.id) : q # <<>>
  /\ Len(PathOf(last.before, last.id)) >= 2

\* deleteNode called through the delete handler on every tree the handlers
\* build, with every id
InitDelete ==
  /\ \E tree \in Grown(MaxNodes) : Mounted(tree, {})
  /\ editingMember = <<>>
  /\ now = Size(data) - 1

NextDelete == calls = 0 /\ DeleteMember

SpecDelete == InitDelete /\ [][NextDelete]_vars

-----------------------------------------------------------------------------
(* C26 *)

\* the positions of the spouses of the tree
SpousePaths(tree) == {p \in Paths(tree) : p # <<>> /\ p[Len(p)] = 0}

\* C26: in every state reached from the seed tree by clicks on what is drawn
\* and by the buttons of the editor, every spouse has no parents and no
\* spouse of its own.
SpousesAreBare ==
  \A p \in SpousePaths(data) :
    NodeAt(data, p).parents = <<>> /\ NodeAt(data, p).spouse = <<>>

\* a spouse added by a click on the side control has been clicked in its
\* turn, on its portrait or on its edit control
SpouseClickedSeen ==
  /\ last.target \in {"spouse", "sEditBtn"}
  /\ last.id \in {NodeAt(data, p).id : p \in SpousePaths(data)}
  /\ last.id.pfx = "spouse"

-----------------------------------------------------------------------------
(* C27 *)

\* the last event was a delete request for a member of the tree that passed
\* the two guards of handleDeleteMember and had its result stored
DeleteAccepted ==
  /\ last.op = "delete"
  /\ last.id \in Ids(last.before)
  /\ last.notes = <<Deleting>>

\* C27: in a tree with unique ids, an accepted delete request for a member
\* of the tree removes exactly one node: the member removed had no parents
\* and no spouse, the tree has one node less, and the ids left are those of
\* all the other members.
AcceptedDeleteRemovesOne ==
  (DeleteAccepted /\ UniqueIds(last.before)) =>
    /\ NodeOf(last.before, last.id).parents = <<>>
    /\ NodeOf(last.before, last.id).spouse = <<>>
    /\ Size(data) = Size(last.before) - 1
    /\ Ids(data) = Ids(last.before) \ {last.id}

\* a member has been deleted from below the root whose holder had both a
\* spouse and parents: one of them went, the rest of the holder stayed
AcceptedDeleteBesideOthersSeen ==
  /\ DeleteAccepted
  /\ UniqueIds(last.before)
  /\ LET p == PathOf(last.before, last.id)
         holder == NodeAt(last.before, SubSeq(p, 1, Len(p) - 1))
     IN  /\ Len(p) >= 2
         /\ holder.spouse # <<>>
         /\ holder.parents # <<>>

-----------------------------------------------------------------------------
(* C28 *)

\* A click on a control of the drawing, or on a spouse, handled before the
\* render that an earlier event asked for has happened: the listener is the
\* one the last pass of the effect bound, its callback works on the state
\* that render captured, and what it stores replaces what was stored before.
ClickPending ==
  \E e \in drawn, t \in Clock :
    \E rs \in [1..Matches(rendered.data, e.id) -> Rand] :
      LET invoked == dispatch(e.kind)
          out == CASE invoked = <<"onAddParent">> ->
                        handleAddParent(rendered.data, e.id, t, rs)
                   [] invoked = <<"onAddSpouse">> ->
                        handleAddSpouse(rendered.data, e.id, t)
                   [] invoked = <<"onAddChild">> ->
                        handleAddChild(rendered.data, e.id, t)
                   [] OTHER -> Outcome(data, FALSE, <<>>)
          stores == \/ invoked \in {<<"onAddParent">>, <<"onAddSpouse">>}
                    \/ invoked = <<"onAddChild">> /\ e.id = rendered.data.id
          op == CASE invoked = <<"onAddParent">> -> "addParent"
                  [] invoked = <<"onAddSpouse">> -> "addSpouse"
                  [] invoked = <<"onAddChild">> -> "addChild"
                  [] OTHER -> "toggle"
      IN  /\ calls < MaxCalls
          /\ editingMember = <<>>
          /\ e.kind \in {"ancestorBtn", "descendantBtn", "sideBtn", "spouse"}
          /\ invoked # <<"toggleSpouse">> \/ t = now
          /\ invoked = <<"onAddParent">> \/ \A i \in DOMAIN rs : rs[i] = 1
          /\ data' = IF stores THEN out.data ELSE data
          /\ expandedSpouseIds' =
               IF invoked = <<"toggleSpouse">>
               THEN toggleSpouse(rendered.expandedSpouseIds, e.id)
               ELSE expandedSpouseIds
          /\ now' = t
          /\ calls' = calls + 1
          /\ last' = [Call(op, e.id, EmptyPatch, t,
                           IF invoked = <<"onAddParent">> THEN rs ELSE <<>>,
                           out.notes)
                        EXCEPT !.target = e.kind, !.invoked = invoked]
          /\ UNCHANGED <<editingMember, dimensions, drawn, transform,
                         currentZoomState, rendered>>

\* the render that the stored state asked for, and the pass of the effect
Flush ==
  /\ rendered # Captured(data, expandedSpouseIds)
  /\ UNCHANGED <<data, editingMember, now, calls, dimensions,
                 expandedSpouseIds>>
  /\ last' = Redrawn(last, TRUE)
  /\ Redraw

NextPending ==
  \/ ClickPending
  \/ Flush

SpecPending == Init /\ [][NextPending]_vars

EditOps == {"addParent", "addSpouse", "addChild", "delete", "toggle"}

\* C28: an edit event is applied to the tree and to the expansion set that
\* the events before it produced, whether or not a render happened in
\* between: what it leaves is what its handler makes of the current tree and
\* the current expansion set.
NoEditLostToStaleState ==
  [][(calls' = calls + 1 /\ last'.op \in EditOps) =>
       /\ (last'.op = "addParent" /\ Matches(data, last'.id) = Len(last'.rs))
            => data' = addParentToNode(data, last'.id, last'.t, last'.rs)
       /\ last'.op = "addSpouse"
            => data' = addSpouseToNode(data, last'.id, last'.t)
       /\ last'.op = "addChild"
            => data' = handleAddChild(data, last'.id, last'.t).data
       /\ last'.op = "delete"
            => data' = handleDeleteMember(data, last'.id).data
       /\ last'.op = "toggle"
            => expandedSpouseIds' =
                 toggleSpouse(expandedSpouseIds, last'.id)]_vars

-----------------------------------------------------------------------------
(* C29 *)

\* C29: whenever the editor is open, the id of the member it holds is in the
\* tree; a save closes the editor, a delete that changes the tree closes the
\* editor, and while the editor is open the tree changes by a save or a
\* delete from the editor only.
EditorHoldsMemberOfTree ==
  /\ [](editingMember # <<>> => editingMember[1].id \in Ids(data))
  /\ [][/\ last'.op = "save" => editingMember' = <<>>
        /\ (last'.op = "delete" /\ data' # data) => editingMember' = <<>>
        /\ (editingMember # <<>> /\ data' # data) =>
             /\ last'.op \in {"save", "delete"}
             /\ last'.id = editingMember[1].id]_vars

\* the editor was opened on a member by a click, the member was deleted from
\* the editor, and the editor is closed
DeletedFromEditorAndClosedSeen ==
  /\ last.op = "delete"
  /\ last.editor # <<>>
  /\ last.editor[1].id = last.id
  /\ last.id \notin Ids(data)
  /\ editingMember = <<>>

-----------------------------------------------------------------------------
(* C30 *)

\* the members the editor would offer to delete: canDelete for the editor
\* open on each of them
Deletable(tree) ==
  {id \in Ids(tree) : id # tree.id /\ calculateDegree(tree, id) = 1}

\* C30: in every reachable state whose tree has more than one node, at least
\* one node has canDelete true, so that accepted deletes can go on until the
\* root is alone. (Stated for the runs in which Math.random never repeats a
\* value within one millisecond.)
SomeMemberDeletable ==
  (RandomPartsDiffer /\ Size(data) > 1) => Deletable(data) # {}

====
